---- MODULE Spec2Model ----
(***************************************************************************)
(* A model of talama.dev: the site configuration record, the localization  *)
(* dictionary, the content store and the static build that reads them, the *)
(* container build, and the socket/HTTP tutorial programs that the blog    *)
(* posts carry as code blocks.                                             *)
(*                                                                         *)
(* Each subsystem has its own variables, initial predicate and next-state  *)
(* relation; the variables of the other subsystems rest at their idle      *)
(* value.                                                                  *)
(***************************************************************************)
EXTENDS Integers, Sequences, FiniteSets, TLC

VARIABLES
    \* site configuration and its readers
    site, seen,
    \* static build: content store, mode, position, loaded posts, output
    store, b_mode, b_pc, b_next, b_posts, b_out, b_err, b_refs, b_text,
    \* pagination of an index
    pg_pc, pg_index, pg_pages, pg_cur,
    \* container build: Dockerfile, build context, position, stages, image
    d_file, d_env, d_ip, d_status, d_stage, d_ran, d_builder, d_final, d_image,
    \* safe_join applied to a request path
    sj_pc, sj_req, sj_res,
    \* tutorial servers: version, files on disk, paths handed to isfile or open,
    \* position, connections accepted, the connected client and how much of its
    \* data was delivered, the request read, the response, what was sent on the
    \* connection, whether the read timed out, the exception raised in
    \* handle_conn, why the server stopped, the accepted sockets that are open
    \* and the connections waiting in the backlog
    s_ver, s_fs, s_reads, s_pc, s_n, s_cli, s_pos, s_req, s_status, s_resp, s_sent,
    s_timed, s_exc, s_why, s_open, s_queue,
    \* tutorial clients: version, the remote server, position, bytes delivered,
    \* res / buffer, body, body_length, the chunks received, recvs that returned
    \* b"" in a loop that went on, and how the client ended
    c_ver, c_srv, c_pc, c_pos, c_buf, c_body, c_len, c_chunks, c_empty, c_why,
    \* logging: the loggers by name, and the calls of get_logger
    lg, lg_calls,
    \* generator: position, settings in force, templates to render, pages written
    g_pc, g_conf, g_todo, g_out,
    \* front matter: position, block as text, parsed data, trips made
    y_pc, y_text, y_data, y_trips,
    \* formatter calls: the dictionary object, calls made, calls recorded
    t_dict, t_calls, t_seen,
    \* build_response: position, status code, body, response returned
    r_pc, r_code, r_body, r_out

siteVars == <<site, seen>>
buildVars == <<store, b_mode, b_pc, b_next, b_posts, b_out, b_err, b_refs, b_text>>
pageVars == <<pg_pc, pg_index, pg_pages, pg_cur>>
dockerVars == <<d_file, d_env, d_ip, d_status, d_stage, d_ran, d_builder, d_final,
                d_image>>
joinVars == <<sj_pc, sj_req, sj_res>>
serverVars == <<s_ver, s_fs, s_reads, s_pc, s_n, s_cli, s_pos, s_req, s_status, s_resp,
                s_sent, s_timed, s_exc, s_why, s_open, s_queue>>
clientVars == <<c_ver, c_srv, c_pc, c_pos, c_buf, c_body, c_len, c_chunks, c_empty,
                c_why>>
loggerVars == <<lg, lg_calls>>
configVars == <<g_pc, g_conf, g_todo, g_out>>
matterVars == <<y_pc, y_text, y_data, y_trips>>
dictVars == <<t_dict, t_calls, t_seen>>
respVars == <<r_pc, r_code, r_body, r_out>>
vars == <<siteVars, buildVars, pageVars, dockerVars, joinVars, serverVars, clientVars,
          loggerVars, configVars, matterVars, dictVars, respVars>>

\* What a step of one subsystem leaves alone.
siteOthers == <<buildVars, pageVars, dockerVars, joinVars, serverVars, clientVars,
                loggerVars, configVars, matterVars, dictVars, respVars>>
buildOthers == <<siteVars, pageVars, dockerVars, joinVars, serverVars, clientVars,
                 loggerVars, configVars, matterVars, dictVars, respVars>>
pageOthers == <<siteVars, buildVars, dockerVars, joinVars, serverVars, clientVars,
                loggerVars, configVars, matterVars, dictVars, respVars>>
dockerOthers == <<siteVars, buildVars, pageVars, joinVars, serverVars, clientVars,
                  loggerVars, configVars, matterVars, dictVars, respVars>>
joinOthers == <<siteVars, buildVars, pageVars, dockerVars, serverVars, clientVars,
                loggerVars, configVars, matterVars, dictVars, respVars>>
serverOthers == <<siteVars, buildVars, pageVars, dockerVars, joinVars, clientVars,
                  loggerVars, configVars, matterVars, dictVars, respVars>>
clientOthers == <<siteVars, buildVars, pageVars, dockerVars, joinVars, serverVars,
                  loggerVars, configVars, matterVars, dictVars, respVars>>
loggerOthers == <<siteVars, buildVars, pageVars, dockerVars, joinVars, serverVars,
                  clientVars, configVars, matterVars, dictVars, respVars>>
configOthers == <<siteVars, buildVars, pageVars, dockerVars, joinVars, serverVars,
                  clientVars, loggerVars, matterVars, dictVars, respVars>>
matterOthers == <<siteVars, buildVars, pageVars, dockerVars, joinVars, serverVars,
                  clientVars, loggerVars, configVars, dictVars, respVars>>
dictOthers == <<siteVars, buildVars, pageVars, dockerVars, joinVars, serverVars,
                clientVars, loggerVars, configVars, matterVars, respVars>>
respOthers == <<siteVars, buildVars, pageVars, dockerVars, joinVars, serverVars,
                clientVars, loggerVars, configVars, matterVars, dictVars>>

(***************************************************************************)
(* Bounds of the model.                                                    *)
(***************************************************************************)
MaxPosts == 3
MaxIndexPosts == 13
MaxPathLen == 5
MaxConns == 2
MaxEmptyRecvs == 2
MaxCalls == 2
MaxHandlers == 2
FillBytes == 1008
MaxTrips == 2
MaxFormats == 3
MaxCompletePosts == 1
MaxBodyLen == 2

(***************************************************************************)
(* Site configuration (config.ts).                                         *)
(***************************************************************************)
postPerIndex == 4
postPerPageOff == postPerIndex + 1
postPerPage == 4
postPerArchive == 10
scheduledPostMargin == 15 * 60 * 1000
genDescriptionMaxLines == 30
genDescriptionCount == 200

SITE ==
    [ website |-> "https://talama.dev/",
      author |-> "Luca Salomoni",
      profile |-> "https://github.com/talama",
      desc |-> "My dev blog",
      title |-> "Talama.dev",
      ogImage |-> "",
      lightAndDarkMode |-> TRUE,
      postPerIndex |-> postPerIndex,
      postPerPage |-> postPerPage,
      postPerArchive |-> postPerArchive,
      scheduledPostMargin |-> scheduledPostMargin,
      genDescriptionMaxLines |-> genDescriptionMaxLines,
      genDescriptionCount |-> genDescriptionCount,
      showArchives |-> TRUE,
      showBackButton |-> FALSE,
      showPageDesc |-> FALSE,
      editPost |-> [ enabled |-> FALSE,
                     text |-> "Suggest Changes",
                     url |-> "https://github.com/talama/astro-paper/edit/main/" ],
      dynamicOgImage |-> TRUE,
      lang |-> "en",
      langOg |-> "en_US",
      timezone |-> "Europe/Rome",
      wontonCommentUrl |-> "" ]

SiteKeys == DOMAIN SITE

\* The components of the build that read the configuration.
Components == {"index", "pagination"}

NotRead == [attr |-> "none", value |-> FALSE]

SiteIdle ==
    /\ site = SITE
    /\ seen = [c \in Components |-> NotRead]

\* A component that, instead of reading, assigns to the record it imported.
ReadAssigning(c, a) ==
    /\ site' = [site EXCEPT !.editPost = [@ EXCEPT !.enabled = ~@]]
    /\ seen' = [seen EXCEPT ![c] = [attr |-> a, value |-> site[a]]]
    /\ UNCHANGED siteOthers

\* import { SITE } ...; SITE.<a> : a read of one attribute of the shared record.
Read(c, a) ==
    /\ seen' = [seen EXCEPT ![c] = [attr |-> a, value |-> site[a]]]
    /\ UNCHANGED site
    /\ UNCHANGED siteOthers

NextSite == \E c \in Components, a \in SiteKeys : Read(c, a)

(***************************************************************************)
(* Localization dictionary (i18n).  A key is a pair <<group, name>>, the   *)
(* lookup _t.group.name.  A formatter is a function of its argument.       *)
(***************************************************************************)
TagNames == {"Sockets", "Python", "Networking"}
DateStrings == {"Sep 13, 2025", "Sep 20, 2025"}
DateTimes == { [y |-> 2025, m |-> 9, d |-> 13, h |-> 19, min |-> 0],
               [y |-> 2025, m |-> 9, d |-> 24, h |-> 9, min |-> 13] }

MonthShort == <<"Jan", "Feb", "Mar", "Apr", "May", "Jun",
                "Jul", "Aug", "Sep", "Oct", "Nov", "Dec">>
MonthLong == <<"January", "February", "March", "April", "May", "June", "July",
               "August", "September", "October", "November", "December">>

Pad2(n) == IF n < 10 THEN "0" \o ToString(n) ELSE ToString(n)
Hour12(h) == IF h % 12 = 0 THEN 12 ELSE h % 12
Meridiem(h) == IF h < 12 THEN "AM" ELSE "PM"

\* datetime.format("MMM D, YYYY")
shortFormat(dt) ==
    MonthShort[dt.m] \o " " \o ToString(dt.d) \o ", " \o ToString(dt.y)

\* datetime.format("MMMM D, YYYY hh:mm A")
fullFormat(dt) ==
    MonthLong[dt.m] \o " " \o ToString(dt.d) \o ", " \o ToString(dt.y) \o " "
        \o Pad2(Hour12(dt.h)) \o ":" \o Pad2(dt.min) \o " " \o Meridiem(dt.h)

en ==
    [ archives |-> [ title |-> "Archives", desc |-> "All the articles I've posted." ],
      posts |-> [ title |-> "Posts", desc |-> "All the articles I've posted." ],
      tags |-> [ title |-> "Tags", desc |-> "All the tags used in posts." ],
      tag |-> [ title |-> "Tag: ",
                desc |-> [tag \in TagNames |->
                            "All the articles with the tag \"" \o tag \o "\"."] ],
      categories |-> [ title |-> "Categories", desc |-> "All the categories." ],
      category |-> [ title |-> "Category: ",
                     desc |-> [category \in TagNames |->
                            "All the articles in the category \"" \o category \o "\"."] ],
      about |-> [ title |-> "About" ],
      search |-> [ title |-> "Search", desc |-> "Search any article ..." ],
      notFoundPage |-> [ title |-> "Page Not Found",
                         toHome |-> "Go back home",
                         toSearch |-> "Try searching" ],
      date |-> [ shortFormat |-> [dt \in DateTimes |-> shortFormat(dt)],
                 fullFormat |-> [dt \in DateTimes |-> fullFormat(dt)],
                 published |-> [strDate \in DateStrings |-> "Published: " \o strDate],
                 updated |-> [strDate \in DateStrings |-> "Updated: " \o strDate] ],
      pagination |-> [ next |-> "Next", previous |-> "Prev" ],
      license |-> [ copyright |-> "Copyright", statement |-> "All rights reserved" ],
      common |-> [ backToTop |-> "Back to Top",
                   themeBtn |-> "Toggle light & dark mode",
                   allPosts |-> "All Posts",
                   featuredPosts |-> "Featured",
                   recentPosts |-> "Recent Posts" ] ]

_t == en

DictKeys == UNION { { <<g, n>> : n \in DOMAIN _t[g] } : g \in DOMAIN _t }

\* Whether _t.group.name names an entry of the dictionary.
HasKey(k) == k[1] \in DOMAIN _t /\ k[2] \in DOMAIN _t[k[1]]

\* The plain (non-formatter) entries, which a page renders as they are.
FormatterKeys == { <<"tag", "desc">>, <<"category", "desc">>,
                   <<"date", "shortFormat">>, <<"date", "fullFormat">>,
                   <<"date", "published">>, <<"date", "updated">> }
StringKeys == DictKeys \ FormatterKeys

\* Keys a template can name: those of the dictionary and two that are not in
\* it (a missing name in an existing group, and a missing group).
AbsentKeys == { <<"archives", "subtitle">>, <<"footer", "title">> }

(***************************************************************************)
(* Content store and front matter.  A content file is its front matter:    *)
(* the set of keys it gives and the value of draft and featured.           *)
(***************************************************************************)
RequiredKeys == {"title", "author", "date"}
OptionalKeys == {"featured", "draft", "categories", "tags", "description"}

\* A front matter block that leaves out `missing` (a set of keys), gives draft
\* the value d and featured the value f ("true", "false", or "absent" when
\* the key is left out).
FrontMatterWith(missing, d, f) ==
    [ keys |-> (((RequiredKeys \cup OptionalKeys) \ missing)
                  \ (IF d = "absent" THEN {"draft"} ELSE {}))
                  \ (IF f = "absent" THEN {"featured"} ELSE {}),
      draft |-> (d = "true"),
      featured |-> (f = "true") ]

\* The posts of the repository all say featured: true.
FrontMatter(missing, d) == FrontMatterWith(missing, d, "true")

\* The front matter of the three posts of the repository.
sockets_python == FrontMatter({}, "false")
sockets_python_1 == FrontMatter({}, "false")
sockets_python_2 == FrontMatter({}, "false")
\* A fourth copy of the first post, which gives no categories.
sockets_python_uncategorized == FrontMatter({"categories"}, "false")
RepoStore ==
    <<sockets_python, sockets_python_1, sockets_python_2, sockets_python_uncategorized>>

FrontMatters ==
    { FrontMatter(m, d) :
        m \in { {}, {"title"}, {"author"}, {"date"}, {"categories"} },
        d \in {"true", "false", "absent"} }

Stores ==
    {RepoStore} \cup UNION { [1..n -> FrontMatters] : n \in 0..MaxPosts }

\* Blocks that have the required keys and leave out optional ones, and the
\* stores made of them.
OptionalOmissions ==
    { {}, {"categories"}, {"tags"}, {"description"},
      {"categories", "tags", "description"} }
CompleteFrontMatters ==
    { FrontMatterWith(m, d, f) :
        m \in OptionalOmissions,
        d \in {"true", "false", "absent"},
        f \in {"true", "false", "absent"} }
CompleteStores ==
    {RepoStore} \cup UNION { [1..n -> CompleteFrontMatters] : n \in 1..MaxCompletePosts }

(***************************************************************************)
(* The static build: load and validate every content file, drop drafts in  *)
(* production, render (a page looks up a localization key), emit.          *)
(***************************************************************************)
NoError == [kind |-> "none", file |-> 0, field |-> ""]

BuildIdle ==
    /\ store = <<>>
    /\ b_mode = "off"
    /\ b_pc = "off"
    /\ b_next = 0
    /\ b_posts = <<>>
    /\ b_out = {}
    /\ b_err = NoError
    /\ b_refs = {}
    /\ b_text = ""

InitBuild ==
    /\ store \in Stores
    /\ b_mode \in {"production", "dev"}
    /\ b_pc = "load"
    /\ b_next = 1
    /\ b_posts = <<>>
    /\ b_out = {}
    /\ b_err = NoError
    /\ b_refs = {}
    /\ b_text = ""

\* A build of a store whose files all have title, author and date.
InitCompleteBuild ==
    /\ store \in CompleteStores
    /\ b_mode \in {"production", "dev"}
    /\ b_pc = "load"
    /\ b_next = 1
    /\ b_posts = <<>>
    /\ b_out = {}
    /\ b_err = NoError
    /\ b_refs = {}
    /\ b_text = ""

MissingRequired(fm) == RequiredKeys \ fm.keys

\* A parser that takes a post without a draft flag for a draft.
ParsePostDraftByDefault(file, fm) ==
    [ file |-> file,
      draft |-> IF "draft" \in fm.keys THEN fm.draft ELSE TRUE,
      featured |-> IF "featured" \in fm.keys THEN fm.featured ELSE FALSE,
      keys |-> fm.keys ]

\* The Post a front matter block parses to: absent draft and featured
\* default to false.
ParsePost(file, fm) ==
    [ file |-> file,
      draft |-> IF "draft" \in fm.keys THEN fm.draft ELSE FALSE,
      featured |-> IF "featured" \in fm.keys THEN fm.featured ELSE FALSE,
      keys |-> fm.keys ]

\* A loader that leaves a malformed file out and goes on.
LoadFileSkipping ==
    /\ b_pc = "load"
    /\ b_next <= Len(store)
    /\ b_posts' = IF MissingRequired(store[b_next]) = {}
                    THEN Append(b_posts, ParsePost(b_next, store[b_next]))
                    ELSE b_posts
    /\ b_next' = b_next + 1
    /\ UNCHANGED <<store, b_mode, b_pc, b_out, b_err, b_refs, b_text>>
    /\ UNCHANGED buildOthers

\* Content loader: parse the next file; a missing required field fails the
\* build with the file and the field.
LoadFile ==
    /\ b_pc = "load"
    /\ b_next <= Len(store)
    /\ IF MissingRequired(store[b_next]) = {}
         THEN /\ b_posts' = Append(b_posts, ParsePost(b_next, store[b_next]))
              /\ b_next' = b_next + 1
              /\ UNCHANGED <<b_pc, b_err>>
         ELSE /\ b_pc' = "failed"
              /\ b_err' = [ kind |-> "schema", file |-> b_next,
                            field |-> CHOOSE k \in MissingRequired(store[b_next]) : TRUE ]
              /\ UNCHANGED <<b_posts, b_next>>
    /\ UNCHANGED <<store, b_mode, b_out, b_refs, b_text>>
    /\ UNCHANGED buildOthers

LoadDone ==
    /\ b_pc = "load"
    /\ b_next > Len(store)
    /\ b_pc' = "filter"
    /\ UNCHANGED <<store, b_mode, b_next, b_posts, b_out, b_err, b_refs, b_text>>
    /\ UNCHANGED buildOthers

\* A filter that keeps every post.
KeepAll(p) == TRUE

\* Whether a post is published in the given mode.
Published(p) == ~(b_mode = "production" /\ p.draft)

FilterDrafts ==
    /\ b_pc = "filter"
    /\ b_posts' = SelectSeq(b_posts, Published)
    /\ b_pc' = "render"
    /\ UNCHANGED <<store, b_mode, b_next, b_out, b_err, b_refs, b_text>>
    /\ UNCHANGED buildOthers

\* The text an entry renders to: a string entry as it is, a formatter applied
\* to an argument.
Rendered(k) ==
    IF k \in FormatterKeys
      THEN { _t[k[1]][k[2]][a] : a \in DOMAIN _t[k[1]][k[2]] }
      ELSE { _t[k[1]][k[2]] }

\* A lookup that renders a missing key as blank text.
RenderKeyBlank(k) ==
    /\ b_pc = "render"
    /\ b_refs' = b_refs \cup {k}
    /\ b_text' \in (IF HasKey(k) THEN Rendered(k) ELSE {""})
    /\ b_pc' = "emit"
    /\ UNCHANGED <<store, b_mode, b_next, b_posts, b_out, b_err>>
    /\ UNCHANGED buildOthers

\* A page looks up key k: the entry if the dictionary has it, a failed build
\* if not.
RenderKey(k) ==
    /\ b_pc = "render"
    /\ b_refs' = b_refs \cup {k}
    /\ IF HasKey(k)
         THEN /\ b_text' \in Rendered(k)
              /\ b_pc' = "emit"
              /\ UNCHANGED b_err
         ELSE /\ b_pc' = "failed"
              /\ b_err' = [kind |-> "i18n", file |-> 0, field |-> k[2]]
              /\ UNCHANGED b_text
    /\ UNCHANGED <<store, b_mode, b_next, b_posts, b_out>>
    /\ UNCHANGED buildOthers

Emit ==
    /\ b_pc = "emit"
    /\ b_out' = { b_posts[i].file : i \in 1..Len(b_posts) }
    /\ b_pc' = "done"
    /\ UNCHANGED <<store, b_mode, b_next, b_posts, b_err, b_refs, b_text>>
    /\ UNCHANGED buildOthers

NextBuild ==
    \/ LoadFile
    \/ LoadDone
    \/ FilterDrafts
    \/ \E k \in DictKeys \cup AbsentKeys : RenderKey(k)
    \/ Emit

(***************************************************************************)
(* Pagination of an index of posts with page size SITE.postPerPage.        *)
(***************************************************************************)
PageIdle ==
    /\ pg_pc = "off"
    /\ pg_index = <<>>
    /\ pg_pages = <<>>
    /\ pg_cur = <<>>

InitPage ==
    /\ pg_pc = "run"
    /\ pg_index \in { [i \in 1..n |-> i] : n \in 1..MaxIndexPosts }
    /\ pg_pages = <<>>
    /\ pg_cur = <<>>

RECURSIVE TotalLen(_)
TotalLen(pages) ==
    IF pages = <<>> THEN 0 ELSE Len(Head(pages)) + TotalLen(Tail(pages))

Placed == TotalLen(pg_pages) + Len(pg_cur)

\* The next post of the index goes on the current page.
TakePost ==
    /\ pg_pc = "run"
    /\ Placed < Len(pg_index)
    /\ Len(pg_cur) < site.postPerPage
    /\ pg_cur' = Append(pg_cur, pg_index[Placed + 1])
    /\ UNCHANGED <<pg_pc, pg_index, pg_pages>>
    /\ UNCHANGED pageOthers

\* The current page is full, or the index is exhausted: the page is closed.
ClosePage ==
    /\ pg_pc = "run"
    /\ pg_cur # <<>>
    /\ Len(pg_cur) = site.postPerPage \/ Placed = Len(pg_index)
    /\ pg_pages' = Append(pg_pages, pg_cur)
    /\ pg_cur' = <<>>
    /\ UNCHANGED <<pg_pc, pg_index>>
    /\ UNCHANGED pageOthers

PagesDone ==
    /\ pg_pc = "run"
    /\ pg_cur = <<>>
    /\ Placed = Len(pg_index)
    /\ pg_pc' = "done"
    /\ UNCHANGED <<pg_index, pg_pages, pg_cur>>
    /\ UNCHANGED pageOthers

NextPage == TakePost \/ ClosePage \/ PagesDone

(***************************************************************************)
(* Container build.  A Dockerfile is its sequence of instructions; the     *)
(* repository holds four versions of it.                                   *)
(***************************************************************************)
Instr(op, cmd, src, dst) == [op |-> op, cmd |-> cmd, src |-> src, dst |-> dst]

FromBuilder == Instr("FROM", "node:20-slim", {}, "builder")
EnvPnpmHome == Instr("ENV", "PNPM_HOME", {}, "")
EnvPath == Instr("ENV", "PATH", {}, "")
CorepackEnable == Instr("RUN", "corepack enable", {}, "")
CorepackPrepare == Instr("RUN", "corepack enable && corepack prepare", {}, "")
Workdir == Instr("WORKDIR", "/app", {}, "")
CopyManifests == Instr("COPY", "", {"package.json", "pnpm-lock.yaml"}, "/app")
\* An install that may rewrite the lockfile.
PnpmInstallLoose == Instr("RUN", "pnpm install", {}, "")
PnpmInstall == Instr("RUN", "pnpm install --frozen-lockfile", {}, "")
CopyContext == Instr("COPY", "", {"."}, "/app")
PnpmBuild == Instr("RUN", "pnpm run build", {}, "")
FromCaddy == Instr("FROM", "caddy:alpine", {}, "final")
CopyDist(dst) == Instr("COPY --from", "builder", {"/app/dist"}, dst)
CopyCaddyfile == Instr("COPY", "", {"Caddyfile"}, "/etc/caddy/Caddyfile")

Dockerfile ==
    << FromBuilder, EnvPnpmHome, EnvPath, CorepackEnable, Workdir, CopyManifests,
       PnpmInstall, CopyContext, PnpmBuild,
       FromCaddy, CopyDist("/var/www/talama.dev"), CopyCaddyfile >>

Dockerfile_usr_share ==
    << FromBuilder, EnvPnpmHome, EnvPath, CorepackEnable, Workdir, CopyManifests,
       PnpmInstall, CopyContext, PnpmBuild,
       FromCaddy, CopyDist("/usr/share/caddy"), CopyCaddyfile >>

Dockerfile_workdir_first ==
    << FromBuilder, Workdir, CorepackEnable, CopyManifests,
       PnpmInstall, CopyContext, PnpmBuild,
       FromCaddy, CopyDist("/var/www/talama.dev"), CopyCaddyfile >>

Dockerfile_prepare ==
    << FromBuilder, Workdir, CorepackPrepare, CopyManifests,
       PnpmInstall, CopyContext, PnpmBuild,
       FromCaddy, CopyDist("/var/www/talama.dev"), CopyCaddyfile >>

Dockerfiles ==
    { Dockerfile, Dockerfile_usr_share, Dockerfile_workdir_first, Dockerfile_prepare }

\* The build context and the environment of one build: the lockfile (in
\* step with package.json, out of step, or not there), the generator's run
\* (ok, an error, or ok without writing dist), whether Caddyfile is in the
\* context, whether corepack can set up pnpm.
DockerEnvs ==
    [ lock : {"ok", "mismatch", "missing"},
      gen : {"ok", "error", "nodist"},
      caddyfile : BOOLEAN,
      corepack : BOOLEAN ]

NoEnv == [lock |-> "ok", gen |-> "ok", caddyfile |-> TRUE, corepack |-> TRUE]

DockerIdle ==
    /\ d_file = <<>>
    /\ d_env = NoEnv
    /\ d_ip = 0
    /\ d_status = "off"
    /\ d_stage = ""
    /\ d_ran = {}
    /\ d_builder = {}
    /\ d_final = {}
    /\ d_image = {}

InitDocker ==
    /\ d_file \in Dockerfiles
    /\ d_env \in DockerEnvs
    /\ d_ip = 1
    /\ d_status = "building"
    /\ d_stage = ""
    /\ d_ran = {}
    /\ d_builder = {}
    /\ d_final = {}
    /\ d_image = {}

Current == d_file[d_ip]

AtInstr(op) ==
    /\ d_status = "building"
    /\ d_ip <= Len(d_file)
    /\ Current.op = op

\* The instruction succeeded: go on, and after the last one the final
\* stage's file tree is the image.
Proceed(final) ==
    /\ d_ip' = d_ip + 1
    /\ IF d_ip = Len(d_file)
         THEN d_status' = "built" /\ d_image' = final
         ELSE UNCHANGED <<d_status, d_image>>

\* The instruction failed: the build stops with a nonzero exit status.
Abort ==
    /\ d_status' = "failed"
    /\ UNCHANGED <<d_ip, d_image>>

\* FROM <image> [AS <name>] : a new stage with an empty tree of its own.
DoFrom ==
    /\ AtInstr("FROM")
    /\ d_stage' = Current.dst
    /\ Proceed(d_final)
    /\ UNCHANGED <<d_file, d_env, d_ran, d_builder, d_final>>
    /\ UNCHANGED dockerOthers

\* ENV, WORKDIR : no file is touched.
DoSetting ==
    /\ AtInstr("ENV") \/ AtInstr("WORKDIR")
    /\ Proceed(d_final)
    /\ UNCHANGED <<d_file, d_env, d_stage, d_ran, d_builder, d_final>>
    /\ UNCHANGED dockerOthers

\* Files of the context that a COPY can name.
InContext(f) ==
    CASE f = "pnpm-lock.yaml" -> d_env.lock # "missing"
      [] f = "Caddyfile" -> d_env.caddyfile
      [] OTHER -> TRUE

ContextFiles == { f \in {"package.json", "pnpm-lock.yaml", "Caddyfile", "src"} : InContext(f) }

\* COPY <src>... <dst> from the build context; a source that is not in the
\* context fails the build.
DoCopy ==
    /\ AtInstr("COPY")
    /\ IF \A f \in Current.src : InContext(f)
         THEN LET put == IF Current.src = {"."}
                           THEN { "/app/" \o f : f \in ContextFiles }
                           ELSE IF d_stage = "builder"
                             THEN { "/app/" \o f : f \in Current.src }
                             ELSE { Current.dst }
              IN /\ d_builder' = IF d_stage = "builder" THEN d_builder \cup put ELSE d_builder
                 /\ d_final' = IF d_stage = "final" THEN d_final \cup put ELSE d_final
                 /\ Proceed(d_final')
         ELSE /\ Abort
              /\ UNCHANGED <<d_builder, d_final>>
    /\ UNCHANGED <<d_file, d_env, d_stage, d_ran>>
    /\ UNCHANGED dockerOthers

\* COPY --from=builder <src> <dst> : the source must exist in the builder
\* stage's tree.
DoCopyFrom ==
    /\ AtInstr("COPY --from")
    /\ IF Current.src \subseteq d_builder
         THEN /\ d_final' = d_final \cup {Current.dst}
              /\ Proceed(d_final')
         ELSE /\ Abort
              /\ UNCHANGED d_final
    /\ UNCHANGED <<d_file, d_env, d_stage, d_ran, d_builder>>
    /\ UNCHANGED dockerOthers

\* Whether a RUN command exits with status zero, and the files it writes.
RunSucceeds(cmd) ==
    CASE cmd = "corepack enable" -> d_env.corepack
      [] cmd = "corepack enable && corepack prepare" -> d_env.corepack
      [] cmd = "pnpm install --frozen-lockfile" ->
            "/app/pnpm-lock.yaml" \in d_builder /\ d_env.lock = "ok"
      [] cmd = "pnpm install" -> TRUE
      [] cmd = "pnpm run build" -> d_env.gen # "error"
      [] OTHER -> FALSE

RunWrites(cmd) ==
    CASE cmd = "pnpm install --frozen-lockfile" -> {"/app/node_modules"}
      [] cmd = "pnpm install" -> {"/app/node_modules"}
      [] cmd = "pnpm run build" -> IF d_env.gen = "ok" THEN {"/app/dist"} ELSE {}
      [] OTHER -> {}

DoRun ==
    /\ AtInstr("RUN")
    /\ IF RunSucceeds(Current.cmd)
         THEN /\ d_ran' = d_ran \cup {Current.cmd}
              /\ d_builder' = d_builder \cup RunWrites(Current.cmd)
              /\ Proceed(d_final)
         ELSE /\ Abort
              /\ UNCHANGED <<d_ran, d_builder>>
    /\ UNCHANGED <<d_file, d_env, d_stage, d_final>>
    /\ UNCHANGED dockerOthers

NextDocker == DoFrom \/ DoSetting \/ DoCopy \/ DoCopyFrom \/ DoRun

(***************************************************************************)
(* Byte strings and paths of the tutorial programs (simple_server.py).     *)
(* A byte string is a sequence of atoms; an atom is a one-character string *)
(* or a longer string that stands for that run of bytes.  No atom is a     *)
(* prefix of another, so a prefix of atoms is a prefix of bytes.           *)
(***************************************************************************)
SLASH == "/"
DOT == "."
None == <<"None">>

StartsWith(str, prefix) ==
    /\ Len(prefix) <= Len(str)
    /\ SubSeq(str, 1, Len(prefix)) = prefix

\* str.lstrip("/")
RECURSIVE LStripSlash(_)
LStripSlash(str) ==
    IF str # <<>> /\ Head(str) = SLASH THEN LStripSlash(Tail(str)) ELSE str

\* str.split(sep) for a one-atom separator: the pieces between separators,
\* empty pieces included.
RECURSIVE SplitOn(_, _)
SplitOn(str, sep) ==
    IF \A i \in 1..Len(str) : str[i] # sep
      THEN <<str>>
      ELSE LET i == CHOOSE j \in 1..Len(str) :
                        str[j] = sep /\ \A k \in 1..(j - 1) : str[k] # sep
           IN <<SubSeq(str, 1, i - 1)>> \o SplitOn(SubSeq(str, i + 1, Len(str)), sep)

\* sep.join(parts)
RECURSIVE JoinWith(_, _)
JoinWith(parts, sep) ==
    IF parts = <<>> THEN <<>>
    ELSE IF Len(parts) = 1 THEN parts[1]
    ELSE parts[1] \o <<sep>> \o JoinWith(Tail(parts), sep)

\* os.path.join(a, b) (posixpath)
PathJoin(a, b) ==
    IF b # <<>> /\ Head(b) = SLASH THEN b
    ELSE IF a = <<>> \/ a[Len(a)] = SLASH THEN a \o b
    ELSE a \o <<SLASH>> \o b

\* The component loop of posixpath.normpath: "" and "." are dropped, ".."
\* removes the component before it (and is dropped at the root of an
\* absolute path).
RECURSIVE NormComps(_, _, _)
NormComps(comps, acc, absolute) ==
    IF comps = <<>> THEN acc
    ELSE LET c == Head(comps)
             rest == Tail(comps)
         IN IF c = <<>> \/ c = <<DOT>> THEN NormComps(rest, acc, absolute)
            ELSE IF c # <<DOT, DOT>>
                      \/ (~absolute /\ acc = <<>>)
                      \/ (acc # <<>> /\ acc[Len(acc)] = <<DOT, DOT>>)
              THEN NormComps(rest, Append(acc, c), absolute)
            ELSE IF acc # <<>>
              THEN NormComps(rest, SubSeq(acc, 1, Len(acc) - 1), absolute)
            ELSE NormComps(rest, acc, absolute)

\* posixpath.normpath(path)
NormPath(path) ==
    IF path = <<>> THEN <<DOT>>
    ELSE LET absolute == Head(path) = SLASH
             double == /\ StartsWith(path, <<SLASH, SLASH>>)
                       /\ ~StartsWith(path, <<SLASH, SLASH, SLASH>>)
             body == JoinWith(NormComps(SplitOn(path, SLASH), <<>>, absolute), SLASH)
             out == IF ~absolute THEN body
                    ELSE IF double THEN <<SLASH, SLASH>> \o body
                    ELSE <<SLASH>> \o body
         IN IF out = <<>> THEN <<DOT>> ELSE out

\* The directory the server is started in, and PUBLIC_DIR =
\* os.path.abspath("./public"); the directory is named "p" here.
Cwd == <<SLASH, "s">>

\* os.path.abspath(path)
AbsPath(path) ==
    NormPath(IF path # <<>> /\ Head(path) = SLASH THEN path ELSE PathJoin(Cwd, path))

PUBLIC_DIR == AbsPath(<<DOT, SLASH, "p">>)

\* safe_join(public_dir, req_path)
safe_join(public_dir, req_path) ==
    LET path == LStripSlash(req_path)
        full_path == AbsPath(PathJoin(public_dir, path))
    IN IF ~StartsWith(full_path, public_dir) THEN None ELSE full_path

\* A path is inside a directory when it is the directory or lies below it.
Inside(dir, path) ==
    path = dir \/ StartsWith(path, dir \o <<SLASH>>)

PathAtoms == {SLASH, DOT, "p", "s"}

RequestPaths == UNION { [1..n -> PathAtoms] : n \in 0..MaxPathLen }

JoinIdle ==
    /\ sj_pc = "off"
    /\ sj_req = <<>>
    /\ sj_res = None

InitJoin ==
    /\ sj_pc = "call"
    /\ sj_req \in RequestPaths
    /\ sj_res = None

SafeJoinCall ==
    /\ sj_pc = "call"
    /\ sj_res' = safe_join(PUBLIC_DIR, sj_req)
    /\ sj_pc' = "ret"
    /\ UNCHANGED sj_req
    /\ UNCHANGED joinOthers

NextJoin == SafeJoinCall

(***************************************************************************)
(* Requests and responses of the tutorial servers.                         *)
(***************************************************************************)
SP == " "
CRLF == "\r\n"
\* A header line of FillBytes bytes with no space and no line break in it.
HeaderFill == "X-Fill"
\* A byte that is not valid UTF-8.
BadByte == "\\xff"

Weight(a) ==
    CASE a = HeaderFill -> FillBytes
      [] a = BadByte -> 1
      [] OTHER -> Len(a)

\* len(data)
RECURSIVE ByteLen(_)
ByteLen(str) == IF str = <<>> THEN 0 ELSE Weight(Head(str)) + ByteLen(Tail(str))

\* b"\r\n\r\n" in request
HasTerminator(request) ==
    \E i \in 1..(Len(request) - 1) : request[i] = CRLF /\ request[i + 1] = CRLF

\* data.decode("utf-8") succeeds
Decodable(data) == \A i \in 1..Len(data) : data[i] # BadByte

RECV_BUFSIZE == 1024
MAX_HEADER_SIZE == 8192

\* The first HTTP version's canned responses.
CONTENT_TOO_LARGE ==
    <<"HTTP/1.1 413 Request Header Fields Too Large", CRLF, "Connection: close", CRLF, CRLF>>
CONNECTION_TIMEOUT ==
    <<"HTTP/1.1 408 Request Timeout", CRLF, "Connection: close", CRLF, CRLF>>
REQUEST_OK ==
    <<"HTTP/1.1 200 OK", CRLF, "Content-Type: text/plain", CRLF,
      "Content-Length: 12", CRLF, "Connection: close", CRLF, CRLF, "Hello World!">>

Reason(status_code) ==
    CASE status_code = 200 -> "OK"
      [] status_code = 400 -> "Bad Request"
      [] status_code = 404 -> "Not Found"
      [] status_code = 408 -> "Request Timeout"
      [] status_code = 431 -> "Request Header Fields Too Large"
      [] status_code = 500 -> "Internal Server Error"
      [] OTHER -> "Unknown"

\* A build_response that gives the length of an empty body too.
build_response_sized(status_code, body) ==
    LET first == <<"HTTP/1.1 " \o ToString(status_code) \o " " \o Reason(status_code)>>
        sized == <<"Content-Length: " \o ToString(ByteLen(body)),
                   "Content-Type: text/html">>
        headers == first \o sized \o <<"Connection: close">>
        response == JoinWith([i \in 1..Len(headers) |-> <<headers[i]>>], CRLF)
                        \o <<CRLF, CRLF>>
    IN response \o body

\* build_response(status_code, body); no body (None) is the empty body.
build_response(status_code, body) ==
    LET first == <<"HTTP/1.1 " \o ToString(status_code) \o " " \o Reason(status_code)>>
        sized == IF body # <<>>
                   THEN <<"Content-Length: " \o ToString(ByteLen(body)),
                          "Content-Type: text/html">>
                   ELSE <<>>
        headers == first \o sized \o <<"Connection: close">>
        response == JoinWith([i \in 1..Len(headers) |-> <<headers[i]>>], CRLF)
                        \o <<CRLF, CRLF>>
    IN IF body # <<>> THEN response \o body ELSE response

\* str.split(): the runs between spaces, empty runs dropped.
NonEmpty(str) == str # <<>>
SplitWhitespace(str) == SelectSeq(SplitOn(str, SP), NonEmpty)

\* A parse_request without the test of the method.
parse_request_any_method(request) ==
    IF ~Decodable(request) THEN None
    ELSE LET request_line == SplitOn(request, CRLF)[1]
             parts == SplitWhitespace(request_line)
         IN IF Len(parts) # 3 THEN None
            ELSE IF parts[2] = <<SLASH>> THEN <<SLASH, "index.html">>
            ELSE parts[2]

\* parse_request(request)
parse_request(request) ==
    IF ~Decodable(request) THEN None
    ELSE LET request_line == SplitOn(request, CRLF)[1]
             parts == SplitWhitespace(request_line)
         IN IF Len(parts) # 3 THEN None
            ELSE IF parts[1] # <<"GET">> THEN None
            ELSE IF parts[2] = <<SLASH>> THEN <<SLASH, "index.html">>
            ELSE parts[2]

(***************************************************************************)
(* build_response on its own: a call with a status code and a body.        *)
(***************************************************************************)
\* The codes of the reasons table, and one that is not in it.
StatusCodes == {200, 400, 404, 408, 431, 500, 418}
BodyAtoms == {"<h1>404</h1>", CRLF, BadByte, HeaderFill}
ResponseBodies == UNION { [1..n -> BodyAtoms] : n \in 0..MaxBodyLen }

ResponseIdle ==
    /\ r_pc = "off"
    /\ r_code = 0
    /\ r_body = <<>>
    /\ r_out = <<>>

InitResponse ==
    /\ r_pc = "call"
    /\ r_code \in StatusCodes
    /\ r_body \in ResponseBodies
    /\ r_out = <<>>

\* response = build_response(status_code, body)
BuildResponse ==
    /\ r_pc = "call"
    /\ r_out' = build_response(r_code, r_body)
    /\ r_pc' = "built"
    /\ UNCHANGED <<r_code, r_body>>
    /\ UNCHANGED respOthers

NextResponse == BuildResponse

(***************************************************************************)
(* Files on disk: a function from the paths of the regular files to their  *)
(* content.                                                                *)
(***************************************************************************)
IndexPath == PUBLIC_DIR \o <<SLASH, "index.html">>
NotFoundPath == PathJoin(PUBLIC_DIR, <<"404.html">>)
\* A file beside the public directory whose name begins with its name.
SiblingPath == Cwd \o <<SLASH, "p", "s">>

IndexBody == <<"<h1>Hello from Simple Server</h1>">>
NotFoundBody == <<"<h1>404</h1>">>
FallbackBody == <<"<h1>404 Not Found</h1>">>
SiblingBody == <<"secret">>

FsFull == (IndexPath :> IndexBody) @@ (NotFoundPath :> NotFoundBody)
              @@ (SiblingPath :> SiblingBody)
FsNo404 == (IndexPath :> IndexBody) @@ (SiblingPath :> SiblingBody)
FsEmptyIndex == (IndexPath :> <<>>) @@ (NotFoundPath :> NotFoundBody)
\* Files that are there but that the server may not read: open raises
\* PermissionError.
Denied == <<"PermissionError">>
FsDenied == (IndexPath :> Denied) @@ (NotFoundPath :> NotFoundBody)
FsDenied404 == (IndexPath :> IndexBody) @@ (NotFoundPath :> Denied)
FsNone == <<>>
FileSystems == {FsFull, FsNo404, FsEmptyIndex, FsDenied, FsDenied404}

\* os.path.isfile(path)
isfile(fs, path) == path \in DOMAIN fs

\* The response a timed-out read is answered with, were the handlers for
\* socket.timeout and OSError taken in the other order.
OnTimeoutAsError(ver) ==
    IF ver = "status" THEN CONTENT_TOO_LARGE ELSE build_response(500, <<>>)

\* except socket.timeout
OnTimeout(ver) ==
    IF ver = "status" THEN CONNECTION_TIMEOUT ELSE build_response(408, <<>>)

\* len(request) >= MAX_HEADER_SIZE
OnTooLarge(ver) ==
    IF ver = "status" THEN CONTENT_TOO_LARGE ELSE build_response(431, <<>>)

\* The paths handle_conn (file-serving version) hands to os.path.isfile or
\* open for a request that decodes.
Touched(fs, request) ==
    LET path == parse_request(request)
    IN IF path = None THEN {}
       ELSE LET file_path == safe_join(PUBLIC_DIR, path)
            IN IF file_path = None THEN {NotFoundPath}
               ELSE IF ~isfile(fs, file_path) THEN {file_path, NotFoundPath}
               ELSE {file_path}

\* An except OSError that answers 400.
OnOSErrorBadRequest == build_response(400, <<>>)

\* except OSError
OnOSError == build_response(500, <<>>)

\* The file handle_conn (file-serving version) opens for a request that
\* decodes: none for a request parse_request rejects, 404.html when the path
\* is refused or is no file, else the file of the path.
Opened(fs, request) ==
    LET path == parse_request(request)
    IN IF path = None THEN None
       ELSE LET file_path == safe_join(PUBLIC_DIR, path)
            IN IF file_path = None \/ ~isfile(fs, file_path) THEN NotFoundPath
               ELSE file_path

\* open(...) raises an OSError that is not FileNotFoundError.
OpenFails(fs, request) ==
    /\ Opened(fs, request) # None
    /\ Opened(fs, request) \in DOMAIN fs
    /\ fs[Opened(fs, request)] = Denied

\* handle_conn (file-serving version) after its read loop, for a request
\* that decodes.
Respond(fs, request) ==
    LET path == parse_request(request)
    IN IF path = None THEN build_response(400, <<>>)
       ELSE IF OpenFails(fs, request) THEN OnOSError
       ELSE LET file_path == safe_join(PUBLIC_DIR, path)
            IN IF file_path = None \/ ~isfile(fs, file_path)
                 THEN build_response(404, IF NotFoundPath \in DOMAIN fs
                                            THEN fs[NotFoundPath]
                                            ELSE FallbackBody)
                 ELSE build_response(200, fs[file_path])

(***************************************************************************)
(* Clients: the bytes a client sends and what it does then (close its      *)
(* side, stay silent, or reset the connection).                            *)
(***************************************************************************)
Client(bytes, then) == [bytes |-> bytes, then |-> then]

RequestLine(method, path) == <<method, SP>> \o path \o <<SP, "HTTP/1.1">>
Complete(line) == line \o <<CRLF, "Host: localhost", CRLF, CRLF>>
Fill(n) == [i \in 1..n |-> HeaderFill]

\* simple_client.py: REQUEST_OK, REQUEST_TIMEOUT, REQUEST_MAX_SIZE (11000
\* bytes without a line break).
CLIENT_REQUEST_OK == Complete(RequestLine("GET", <<SLASH>>))
CLIENT_REQUEST_TIMEOUT == RequestLine("GET", <<SLASH>>)
CLIENT_REQUEST_MAX_SIZE == Fill(11)

GetPaths ==
    { <<SLASH>>,
      <<SLASH, "index.html">>,
      <<SLASH, "404.html">>,
      <<SLASH, "s">>,
      <<SLASH, DOT>>,
      <<SLASH, DOT, DOT, SLASH, "p", "s">>,
      <<SLASH, DOT, DOT, SLASH, DOT, DOT, SLASH, "s">> }

Thens == {"close", "stall", "reset"}

Clients ==
    { Client(Complete(RequestLine("GET", path)), "stall") : path \in GetPaths }
    \cup { Client(CLIENT_REQUEST_OK, t) : t \in Thens }
    \cup { Client(CLIENT_REQUEST_TIMEOUT, t) : t \in Thens }
    \cup { Client(CLIENT_REQUEST_MAX_SIZE, "stall") }
    \cup { Client(<<>>, t) : t \in Thens }
    \cup { Client(Complete(RequestLine("POST", <<SLASH>>)), "stall"),
           Client(Complete(<<"GET", SP, SLASH>>), "close"),
           Client(Complete(RequestLine("get", <<SLASH>>)), "stall"),
           Client(Complete(RequestLine("GET", <<SLASH>>) \o <<SP, "x">>), "stall"),
           Client(Complete(<<"GET", SP, SP, SLASH, "404.html", SP, "x">>), "stall"),
           Client(<<CRLF>> \o CLIENT_REQUEST_OK, "stall"),
           Client(<<"Ciao!", CRLF>>, "close"),
           Client(<<"Ciao!", CRLF>>, "stall"),
           Client(<<BadByte, CRLF, CRLF>>, "close"),
           Client(RequestLine("GET", <<SLASH>>) \o <<CRLF>> \o Fill(7)
                      \o <<HeaderFill, CRLF, CRLF>>, "stall"),
           Client(Fill(3), "stall"),
           Client(Fill(3), "close"),
           \* a complete request whose header is below MAX_HEADER_SIZE,
           \* with more bytes after its terminator
           Client(RequestLine("GET", <<SLASH>>) \o <<CRLF>> \o Fill(8)
                      \o <<CRLF, CRLF, HeaderFill>>, "stall") }

NoClient == Client(<<>>, "none")

(***************************************************************************)
(* The servers.  s_ver is "echo" (part 1's simple_server.py), "status"     *)
(* (part 2's first HTTP version, whose handle_conn returns a status and    *)
(* bytes) or "files" (the version that serves files from PUBLIC_DIR).      *)
(***************************************************************************)
ServerIdle ==
    /\ s_ver = "off"
    /\ s_fs = FsNone
    /\ s_reads = {}
    /\ s_pc = "off"
    /\ s_n = 0
    /\ s_cli = NoClient
    /\ s_pos = 0
    /\ s_req = <<>>
    /\ s_status = 0
    /\ s_resp = <<>>
    /\ s_sent = <<>>
    /\ s_timed = FALSE
    /\ s_exc = ""
    /\ s_why = ""
    /\ s_open = {}
    /\ s_queue = 0

InitServer(versions) ==
    /\ s_ver \in versions
    /\ s_fs \in (IF s_ver = "files" THEN FileSystems ELSE {FsNone})
    /\ s_reads = {}
    /\ s_pc = "accept"
    /\ s_n = 0
    /\ s_cli = NoClient
    /\ s_pos = 0
    /\ s_req = <<>>
    /\ s_status = 0
    /\ s_resp = <<>>
    /\ s_sent = <<>>
    /\ s_timed = FALSE
    /\ s_exc = ""
    /\ s_why = ""
    /\ s_open = {}
    /\ s_queue = 0

InitEcho == InitServer({"echo"})
InitHttp == InitServer({"status", "files"})
InitAnyServer == InitServer({"echo", "status", "files"})

\* What the client has still to send.
Remaining == SubSeq(s_cli.bytes, s_pos + 1, Len(s_cli.bytes))

\* conn.recv(1024) with data waiting returns a non-empty run of the bytes
\* next in the stream, at most 1024 of them.
Chunks ==
    { k \in 1..Len(Remaining) : ByteLen(SubSeq(Remaining, 1, k)) <= RECV_BUFSIZE }

\* The loop, and with it start_server, is left.
Leave(why) ==
    /\ s_pc' = "stopped"
    /\ s_why' = why
    /\ s_open' = {}

\* An exception no handler of start_server catches ends the program.
Crash(why) ==
    /\ s_pc' = "crashed"
    /\ s_why' = why
    /\ s_open' = {}

\* A client connects; the connection waits in the backlog of the listening
\* socket until the server accepts it.
Connect ==
    /\ s_pc \in {"accept", "recv", "handle", "send"}
    /\ s_n + s_queue < MaxConns
    /\ s_queue' = s_queue + 1
    /\ UNCHANGED <<s_ver, s_fs, s_reads, s_pc, s_n, s_cli, s_pos, s_req, s_status, s_resp, s_sent,
                   s_timed, s_exc, s_why, s_open>>
    /\ UNCHANGED serverOthers

\* conn, addr = my_server.accept(); with conn: [conn.settimeout(5)]
\* accept blocks until a connection is waiting.
Accept ==
    /\ s_pc = "accept"
    /\ s_queue > 0
    /\ s_queue' = s_queue - 1
    /\ s_cli' \in Clients
    /\ s_n' = s_n + 1
    /\ s_open' = s_open \cup {s_n + 1}
    /\ s_pos' = 0
    /\ s_req' = <<>>
    /\ s_status' = 0
    /\ s_resp' = <<>>
    /\ s_sent' = <<>>
    /\ s_timed' = FALSE
    /\ s_exc' = ""
    /\ s_reads' = {}
    /\ s_pc' = "recv"
    /\ UNCHANGED <<s_ver, s_fs, s_why>>
    /\ UNCHANGED serverOthers

\* KeyboardInterrupt: the user stops the server.
Interrupt ==
    /\ s_pc \in {"accept", "recv", "handle", "send"}
    /\ Leave("KeyboardInterrupt")
    /\ UNCHANGED <<s_queue, s_ver, s_fs, s_reads, s_n, s_cli, s_pos, s_req, s_status, s_resp, s_sent, s_timed, s_exc>>
    /\ UNCHANGED serverOthers

\* conn.sendall(data) on a connection that is not closed afterwards.
SendAllLeavingOpen(data) ==
    /\ s_sent' = Append(s_sent, data)
    /\ s_pc' = "accept"
    /\ UNCHANGED <<s_why, s_open>>

\* conn.sendall(data), then the with block closes the connection.  A client
\* that has reset the connection can make sendall raise OSError.
SendAll(data) ==
    \/ /\ s_sent' = Append(s_sent, data)
       /\ s_pc' = "accept"
       /\ s_open' = s_open \ {s_n}
       /\ UNCHANGED s_why
    \/ /\ s_cli.then = "reset"
       /\ Remaining = <<>>
       /\ Leave("OSError")
       /\ UNCHANGED s_sent

---------------------------------------------------------------------------
\* Echo server: data = conn.recv(1024) returned data.
EchoRecvData ==
    /\ s_ver = "echo" /\ s_pc = "recv"
    /\ \E k \in Chunks :
         /\ s_pos' = s_pos + k
         /\ s_req' = SubSeq(Remaining, 1, k)
         /\ IF Decodable(s_req')
              THEN /\ s_resp' = s_req'
                   /\ s_pc' = "send"
                   /\ UNCHANGED <<s_why, s_open>>
              ELSE /\ Crash("UnicodeDecodeError")
                   /\ UNCHANGED s_resp
    /\ UNCHANGED <<s_queue, s_ver, s_fs, s_reads, s_n, s_cli, s_status, s_sent, s_timed, s_exc>>
    /\ UNCHANGED serverOthers

\* data = conn.recv(1024) returned b"": if not data: break
EchoRecvClosed ==
    /\ s_ver = "echo" /\ s_pc = "recv"
    /\ Remaining = <<>> /\ s_cli.then = "close"
    /\ Leave("break")
    /\ UNCHANGED <<s_queue, s_ver, s_fs, s_reads, s_n, s_cli, s_pos, s_req, s_status, s_resp, s_sent, s_timed, s_exc>>
    /\ UNCHANGED serverOthers

\* conn.recv(1024) raised OSError (connection reset): except OSError
EchoRecvError ==
    /\ s_ver = "echo" /\ s_pc = "recv"
    /\ Remaining = <<>> /\ s_cli.then = "reset"
    /\ Leave("OSError")
    /\ UNCHANGED <<s_queue, s_ver, s_fs, s_reads, s_n, s_cli, s_pos, s_req, s_status, s_resp, s_sent, s_timed, s_exc>>
    /\ UNCHANGED serverOthers

\* conn.sendall(data)
EchoSend ==
    /\ s_ver = "echo" /\ s_pc = "send"
    /\ SendAll(s_resp)
    /\ UNCHANGED <<s_queue, s_ver, s_fs, s_reads, s_n, s_cli, s_pos, s_req, s_status, s_resp, s_timed, s_exc>>
    /\ UNCHANGED serverOthers

NextEcho ==
    \/ Connect
    \/ Accept
    \/ EchoRecvData
    \/ EchoRecvClosed
    \/ EchoRecvError
    \/ EchoSend
    \/ Interrupt

---------------------------------------------------------------------------
\* A read loop without the test of the length of the request.
HttpRecvDataUnbounded ==
    /\ s_ver \in {"status", "files"} /\ s_pc = "recv"
    /\ \E k \in Chunks :
         /\ s_pos' = s_pos + k
         /\ s_req' = s_req \o SubSeq(Remaining, 1, k)
         /\ s_pc' = IF HasTerminator(s_req') THEN "handle" ELSE "recv"
    /\ UNCHANGED <<s_queue, s_ver, s_fs, s_reads, s_n, s_cli, s_status, s_resp, s_sent,
                   s_timed, s_exc, s_why, s_open>>
    /\ UNCHANGED serverOthers

\* handle_conn's read loop: chunk = conn.recv(1024) returned data.
HttpRecvData ==
    /\ s_ver \in {"status", "files"} /\ s_pc = "recv"
    /\ \E k \in Chunks :
         /\ s_pos' = s_pos + k
         /\ s_req' = s_req \o SubSeq(Remaining, 1, k)
         /\ IF ByteLen(s_req') >= MAX_HEADER_SIZE
              THEN /\ s_status' = (IF s_ver = "status" THEN 413 ELSE 431)
                   /\ s_resp' = OnTooLarge(s_ver)
                   /\ s_pc' = "send"
              ELSE /\ s_pc' = IF HasTerminator(s_req') THEN "handle" ELSE "recv"
                   /\ UNCHANGED <<s_status, s_resp>>
    /\ UNCHANGED <<s_queue, s_ver, s_fs, s_reads, s_n, s_cli, s_sent, s_timed, s_exc, s_why, s_open>>
    /\ UNCHANGED serverOthers

\* chunk = conn.recv(1024) returned b"": if not chunk: break
HttpRecvClosed ==
    /\ s_ver \in {"status", "files"} /\ s_pc = "recv"
    /\ Remaining = <<>> /\ s_cli.then = "close"
    /\ s_pc' = "handle"
    /\ UNCHANGED <<s_queue, s_ver, s_fs, s_reads, s_n, s_cli, s_pos, s_req, s_status, s_resp, s_sent,
                   s_timed, s_exc, s_why, s_open>>
    /\ UNCHANGED serverOthers

\* No data for 5 seconds: conn.recv(1024) raised socket.timeout.
HttpRecvTimeout ==
    /\ s_ver \in {"status", "files"} /\ s_pc = "recv"
    /\ Remaining = <<>> /\ s_cli.then = "stall"
    /\ s_timed' = TRUE
    /\ s_exc' = "socket.timeout"
    /\ s_status' = 408
    /\ s_resp' = OnTimeout(s_ver)
    /\ s_pc' = "send"
    /\ UNCHANGED <<s_queue, s_ver, s_fs, s_reads, s_n, s_cli, s_pos, s_req, s_sent, s_why, s_open>>
    /\ UNCHANGED serverOthers

\* conn.recv(1024) raised another OSError (connection reset): the
\* file-serving handle_conn answers 500; the first version does not catch
\* it, and start_server's except OSError ends the server.
HttpRecvError ==
    /\ s_ver \in {"status", "files"} /\ s_pc = "recv"
    /\ Remaining = <<>> /\ s_cli.then = "reset"
    /\ s_exc' = "ConnectionResetError"
    /\ IF s_ver = "files"
         THEN /\ s_status' = 500
              /\ s_resp' = OnOSError
              /\ s_pc' = "send"
              /\ UNCHANGED <<s_why, s_open>>
         ELSE /\ Leave("OSError")
              /\ UNCHANGED <<s_status, s_resp>>
    /\ UNCHANGED <<s_queue, s_ver, s_fs, s_reads, s_n, s_cli, s_pos, s_req, s_sent, s_timed>>
    /\ UNCHANGED serverOthers

\* handle_conn after the read loop.  First version: return (200, request).
\* File-serving version: print(request.decode("utf-8")), then the response
\* for the request.
Handle ==
    /\ s_ver \in {"status", "files"} /\ s_pc = "handle"
    /\ IF s_ver = "status"
         THEN /\ s_status' = 200
              /\ s_resp' = s_req
              /\ s_pc' = "send"
              /\ UNCHANGED <<s_why, s_open, s_reads, s_exc>>
         ELSE IF Decodable(s_req)
           THEN /\ s_resp' = Respond(s_fs, s_req)
                /\ s_reads' = Touched(s_fs, s_req)
                /\ s_exc' = IF OpenFails(s_fs, s_req) THEN "PermissionError" ELSE s_exc
                /\ s_pc' = "send"
                /\ UNCHANGED <<s_status, s_why, s_open>>
           ELSE /\ Crash("UnicodeDecodeError")
                /\ s_exc' = "UnicodeDecodeError"
                /\ UNCHANGED <<s_status, s_resp, s_reads>>
    /\ UNCHANGED <<s_queue, s_ver, s_fs, s_n, s_cli, s_pos, s_req, s_sent, s_timed>>
    /\ UNCHANGED serverOthers

\* start_server with handle_conn's result.  First version: an error
\* response is sent as returned; for 200 the request is printed and
\* REQUEST_OK sent.  File-serving version: conn.sendall(response).
Send ==
    /\ s_ver \in {"status", "files"} /\ s_pc = "send"
    /\ IF s_ver = "status" /\ s_status = 200
         THEN IF Decodable(s_resp)
                THEN SendAll(REQUEST_OK)
                ELSE Crash("UnicodeDecodeError") /\ UNCHANGED s_sent
         ELSE SendAll(s_resp)
    /\ UNCHANGED <<s_queue, s_ver, s_fs, s_reads, s_n, s_cli, s_pos, s_req, s_status, s_resp, s_timed, s_exc>>
    /\ UNCHANGED serverOthers

NextHttp ==
    \/ Connect
    \/ Accept
    \/ HttpRecvData
    \/ HttpRecvClosed
    \/ HttpRecvTimeout
    \/ HttpRecvError
    \/ Handle
    \/ Send
    \/ Interrupt

\* Any of the three servers.
NextServer == NextEcho \/ NextHttp

(***************************************************************************)
(* The tutorial clients (simple_client.py).  c_ver is "read" (the version  *)
(* that reads until the server closes) or "length" (the version that reads *)
(* the headers and then Content-Length bytes of body).  The remote server  *)
(* is the bytes it sends and what it does then: close, keep the connection *)
(* open and stay silent, or reset it.  c_buf is res in the first version   *)
(* and buffer in the second.                                               *)
(***************************************************************************)
Remote(bytes, then, length) == [bytes |-> bytes, then |-> then, length |-> length]
NoRemote == Remote(<<>>, "none", 0)

\* The spellings of the header name that h.lower().startswith("content-length:")
\* accepts, with the white space strip() removes.
LengthPrefixes == {"Content-Length: ", "content-length:", "CONTENT-LENGTH:  "}

Bodies ==
    { <<>>, <<"Hello">>, <<"Hello ", "World!">>, <<"Hello World!">>, FallbackBody,
      <<"Hello ", "World!", "GET">>, Fill(2), <<BadByte, "World!">> }

LengthValues == { ByteLen(b) : b \in Bodies }

\* A response with the given header lines (each a sequence of atoms) and body.
Response(lines, body) ==
    <<"HTTP/1.1 200 OK">> \o JoinWith(<<<<>>>> \o lines, CRLF) \o <<CRLF, CRLF>> \o body

Remotes ==
    LET thens == {"close", "keepalive", "reset"}
    IN { Remote(Response(<<<<"Content-Length: " \o ToString(n)>>>>, b), t, n) :
            n \in LengthValues, b \in Bodies, t \in thens }
       \cup { Remote(Response(<<<<"Content-Type: text/plain">>, <<p \o ToString(12)>>,
                                <<"Connection: close">>>>, <<"Hello ", "World!">>), t, 12) :
                 p \in LengthPrefixes, t \in thens }
       \cup { Remote(REQUEST_OK, t, 12) : t \in thens }
       \cup { Remote(CONNECTION_TIMEOUT, t, 0) : t \in thens }
       \cup { Remote(build_response(404, FallbackBody), t, ByteLen(FallbackBody)) :
                 t \in thens }
       \* no Content-Length header
       \cup { Remote(Response(<<>>, <<"Hello">>), t, 0) : t \in thens }
       \* a Content-Length that is not a number
       \cup { Remote(Response(<<<<"Content-Length: abc">>>>, <<"Hello">>), t, 0) :
                 t \in thens }
       \* a header that is not text
       \cup { Remote(Response(<<<<BadByte>>>>, <<>>), "close", 0) }
       \* a response cut before the end of its headers, and none at all
       \cup { Remote(<<"HTTP/1.1 200 OK", CRLF>>, t, 0) : t \in thens }
       \cup { Remote(<<>>, t, 0) : t \in thens }

\* The index of the first CRLF CRLF in data.
TerminatorAt(data) ==
    CHOOSE i \in 1..(Len(data) - 1) :
        /\ data[i] = CRLF /\ data[i + 1] = CRLF
        /\ \A j \in 1..(i - 1) : ~(data[j] = CRLF /\ data[j + 1] = CRLF)

\* headers, body = buffer.split(b"\r\n\r\n", 1)
HeadersOf(buffer) == SubSeq(buffer, 1, TerminatorAt(buffer) - 1)
BodyOf(buffer) == SubSeq(buffer, TerminatorAt(buffer) + 2, Len(buffer))

NotLength == -1
ValueError == -2

\* For a header line h: NotLength unless h.lower().startswith("content-length:");
\* else int(h.split(":", 1)[1].strip()), ValueError when that is no number.
LengthOfLine(h) ==
    IF Len(h) # 1 THEN NotLength
    ELSE IF \E p \in LengthPrefixes, n \in LengthValues : h[1] = p \o ToString(n)
      THEN CHOOSE n \in LengthValues : \E p \in LengthPrefixes : h[1] = p \o ToString(n)
    ELSE IF \E p \in LengthPrefixes : h[1] = p \o "abc" THEN ValueError
    ELSE NotLength

\* body_length after the loop over the header lines: 0, or the value of the
\* last Content-Length line; ValueError when int() raised on one of them.
BodyLength(headers) ==
    LET lines == SplitOn(headers, CRLF)
        found == { i \in 1..Len(lines) : LengthOfLine(lines[i]) # NotLength }
    IN IF found = {} THEN 0
       ELSE IF \E i \in found : LengthOfLine(lines[i]) = ValueError THEN ValueError
       ELSE LengthOfLine(lines[CHOOSE i \in found : \A j \in found : j <= i])

ClientIdle ==
    /\ c_ver = "off"
    /\ c_srv = NoRemote
    /\ c_pc = "off"
    /\ c_pos = 0
    /\ c_buf = <<>>
    /\ c_body = <<>>
    /\ c_len = 0
    /\ c_chunks = <<>>
    /\ c_empty = 0
    /\ c_why = ""

\* start_client after client.sendall(message): about to read the response.
InitClient(ver) ==
    /\ c_ver = ver
    /\ c_srv \in Remotes
    /\ c_pc = (IF ver = "read" THEN "read" ELSE "head")
    /\ c_pos = 0
    /\ c_buf = <<>>
    /\ c_body = <<>>
    /\ c_len = 0
    /\ c_chunks = <<>>
    /\ c_empty = 0
    /\ c_why = ""

InitReadClient == InitClient("read")
InitLengthClient == InitClient("length")

\* What the server has still to deliver.
Pending == SubSeq(c_srv.bytes, c_pos + 1, Len(c_srv.bytes))

\* client.recv(1024) with data waiting: a non-empty run of the bytes next in
\* the stream, at most 1024 of them.
ClientChunks ==
    { k \in 1..Len(Pending) : ByteLen(SubSeq(Pending, 1, k)) <= RECV_BUFSIZE }

\* client.recv(1024) returns b"": the server has sent everything and closed.
RecvEmpty == Pending = <<>> /\ c_srv.then = "close"

\* One more recv that returned b"" in a loop that does not test for it.
Spin == c_empty' = IF c_empty < MaxEmptyRecvs THEN c_empty + 1 ELSE c_empty

\* print(data.decode("utf-8")) ends the function, or raises UnicodeDecodeError,
\* which no except clause of start_client catches.
PrintDecoded(data) ==
    IF Decodable(data)
      THEN c_pc' = "done" /\ UNCHANGED c_why
      ELSE c_pc' = "crashed" /\ c_why' = "UnicodeDecodeError"

\* client.recv(1024) raises OSError (connection reset): except OSError
ClientRecvError ==
    /\ c_pc \in {"read", "head"} \/ (c_pc = "body" /\ ByteLen(c_body) < c_len)
    /\ Pending = <<>> /\ c_srv.then = "reset"
    /\ c_pc' = "failed"
    /\ c_why' = "OSError"
    /\ UNCHANGED <<c_ver, c_srv, c_pos, c_buf, c_body, c_len, c_chunks, c_empty>>
    /\ UNCHANGED clientOthers

---------------------------------------------------------------------------
\* A loop body that keeps only the chunk just received.
ReadRecvDataKeepLast ==
    /\ c_ver = "read" /\ c_pc = "read"
    /\ \E k \in ClientChunks :
         /\ c_pos' = c_pos + k
         /\ c_buf' = SubSeq(Pending, 1, k)
         /\ c_chunks' = Append(c_chunks, SubSeq(Pending, 1, k))
    /\ UNCHANGED <<c_ver, c_srv, c_pc, c_body, c_len, c_empty, c_why>>
    /\ UNCHANGED clientOthers

\* Read-until-close version: chunk = client.recv(1024); res += chunk
ReadRecvData ==
    /\ c_ver = "read" /\ c_pc = "read"
    /\ \E k \in ClientChunks :
         /\ c_pos' = c_pos + k
         /\ c_buf' = c_buf \o SubSeq(Pending, 1, k)
         /\ c_chunks' = Append(c_chunks, SubSeq(Pending, 1, k))
    /\ UNCHANGED <<c_ver, c_srv, c_pc, c_body, c_len, c_empty, c_why>>
    /\ UNCHANGED clientOthers

\* if not chunk: break; print(res.decode("utf-8"))
ReadRecvClosed ==
    /\ c_ver = "read" /\ c_pc = "read"
    /\ RecvEmpty
    /\ PrintDecoded(c_buf)
    /\ UNCHANGED <<c_ver, c_srv, c_pos, c_buf, c_body, c_len, c_chunks, c_empty>>
    /\ UNCHANGED clientOthers

NextReadClient ==
    \/ ReadRecvData
    \/ ReadRecvClosed
    \/ ClientRecvError

---------------------------------------------------------------------------
\* Content-Length version, while b"\r\n\r\n" not in buffer:
\* chunk = client.recv(1024); buffer += chunk
HeadRecvData ==
    /\ c_ver = "length" /\ c_pc = "head"
    /\ \E k \in ClientChunks :
         /\ c_pos' = c_pos + k
         /\ c_buf' = c_buf \o SubSeq(Pending, 1, k)
         /\ c_pc' = IF HasTerminator(c_buf') THEN "parse" ELSE "head"
    /\ UNCHANGED <<c_ver, c_srv, c_body, c_len, c_chunks, c_empty, c_why>>
    /\ UNCHANGED clientOthers

\* chunk is b"": buffer += chunk changes nothing and the loop goes round.
HeadRecvClosed ==
    /\ c_ver = "length" /\ c_pc = "head"
    /\ RecvEmpty
    /\ Spin
    /\ UNCHANGED <<c_ver, c_srv, c_pc, c_pos, c_buf, c_body, c_len, c_chunks, c_why>>
    /\ UNCHANGED clientOthers

\* The split of buffer, the decoding of the headers and the loop that looks
\* for Content-Length.
ParseHeaders ==
    /\ c_ver = "length" /\ c_pc = "parse"
    /\ IF ~Decodable(HeadersOf(c_buf))
         THEN /\ c_pc' = "crashed" /\ c_why' = "UnicodeDecodeError"
              /\ UNCHANGED <<c_body, c_len>>
         ELSE IF BodyLength(HeadersOf(c_buf)) = ValueError
           THEN /\ c_pc' = "crashed" /\ c_why' = "ValueError"
                /\ UNCHANGED <<c_body, c_len>>
           ELSE /\ c_len' = BodyLength(HeadersOf(c_buf))
                /\ c_body' = BodyOf(c_buf)
                /\ c_pc' = "body"
                /\ UNCHANGED c_why
    /\ UNCHANGED <<c_ver, c_srv, c_pos, c_buf, c_chunks, c_empty>>
    /\ UNCHANGED clientOthers

\* while len(body) < body_length: chunk = client.recv(1024); body += chunk
BodyRecvData ==
    /\ c_ver = "length" /\ c_pc = "body"
    /\ ByteLen(c_body) < c_len
    /\ \E k \in ClientChunks :
         /\ c_pos' = c_pos + k
         /\ c_body' = c_body \o SubSeq(Pending, 1, k)
    /\ UNCHANGED <<c_ver, c_srv, c_pc, c_buf, c_len, c_chunks, c_empty, c_why>>
    /\ UNCHANGED clientOthers

\* chunk is b"": body += chunk changes nothing and the loop goes round.
BodyRecvClosed ==
    /\ c_ver = "length" /\ c_pc = "body"
    /\ ByteLen(c_body) < c_len
    /\ RecvEmpty
    /\ Spin
    /\ UNCHANGED <<c_ver, c_srv, c_pc, c_pos, c_buf, c_body, c_len, c_chunks, c_why>>
    /\ UNCHANGED clientOthers

\* A client that prints the body it has without waiting for the rest.
BodyDoneEarly ==
    /\ c_ver = "length" /\ c_pc = "body"
    /\ PrintDecoded(c_body)
    /\ UNCHANGED <<c_ver, c_srv, c_pos, c_buf, c_body, c_len, c_chunks, c_empty>>
    /\ UNCHANGED clientOthers

\* The loop condition len(body) < body_length is false: print(body.decode("utf-8"))
BodyDone ==
    /\ c_ver = "length" /\ c_pc = "body"
    /\ ByteLen(c_body) >= c_len
    /\ PrintDecoded(c_body)
    /\ UNCHANGED <<c_ver, c_srv, c_pos, c_buf, c_body, c_len, c_chunks, c_empty>>
    /\ UNCHANGED clientOthers

NextLengthClient ==
    \/ HeadRecvData
    \/ HeadRecvClosed
    \/ ParseHeaders
    \/ BodyRecvData
    \/ BodyRecvClosed
    \/ BodyDone
    \/ ClientRecvError

(***************************************************************************)
(* utils/logger.py.  logging keeps one Logger object for each name; lg is  *)
(* that registry: for each name the logger's level and its handlers.       *)
(* lg_calls counts the calls of get_logger for each name.                  *)
(***************************************************************************)
LoggerNames == {"server", "client", "__main__"}
NOTSET == 0
INFO == 20

LoggerIdle ==
    /\ lg = [n \in LoggerNames |-> [level |-> NOTSET, handlers |-> <<>>]]
    /\ lg_calls = [n \in LoggerNames |-> 0]

\* A get_logger that adds its handler without looking at logger.handlers.
get_logger_adding(name) ==
    /\ lg_calls[name] < MaxCalls
    /\ lg' = [lg EXCEPT ![name] =
                [level |-> INFO, handlers |-> Append(@.handlers, "StreamHandler")]]
    /\ lg_calls' = [lg_calls EXCEPT ![name] = @ + 1]
    /\ UNCHANGED loggerOthers

\* get_logger(name): setLevel(logging.INFO); if not logger.handlers: addHandler(console_handler)
get_logger(name) ==
    /\ lg_calls[name] < MaxCalls
    /\ lg' = [lg EXCEPT ![name] =
                [level |-> INFO,
                 handlers |-> IF @.handlers = <<>>
                                THEN <<"StreamHandler">>
                                ELSE @.handlers]]
    /\ lg_calls' = [lg_calls EXCEPT ![name] = @ + 1]
    /\ UNCHANGED loggerOthers

\* Other code attaches a handler of its own to a logger.
AddHandler(name) ==
    /\ Len(lg[name].handlers) < MaxHandlers
    /\ lg' = [lg EXCEPT ![name].handlers = Append(@, "FileHandler")]
    /\ UNCHANGED lg_calls
    /\ UNCHANGED loggerOthers

NextLogger ==
    \E name \in LoggerNames :
        \/ get_logger(name)
        \/ AddHandler(name)

(***************************************************************************)
(* Build configuration (the default export of the generator's config file) *)
(* and the generator's reading of it: the generator starts from its own    *)
(* defaults, takes from the returned object the keys it knows, and ignores *)
(* any other key.                                                          *)
(***************************************************************************)
\* The object the config function returns.
config ==
    [ markdownTemplteEngine |-> "njk",
      dir |-> [ output |-> "dist",
                input |-> "src",
                includes |-> "_includes",
                layouts |-> "_layouts" ] ]

\* The generator's settings before any configuration is applied.
GeneratorDefaults ==
    [ markdownTemplateEngine |-> "liquid",
      htmlTemplateEngine |-> "liquid",
      dir |-> [ output |-> "_site",
                input |-> ".",
                includes |-> "_includes",
                layouts |-> "_includes" ] ]

\* The settings in force once the generator has merged the returned object.
Effective(returned) ==
    [ k \in DOMAIN GeneratorDefaults |->
        IF k \notin DOMAIN returned THEN GeneratorDefaults[k]
        ELSE IF k = "dir"
          THEN [ d \in DOMAIN GeneratorDefaults.dir |->
                   IF d \in DOMAIN returned.dir THEN returned.dir[d]
                   ELSE GeneratorDefaults.dir[d] ]
          ELSE returned[k] ]

\* Template files of the input directory: name and format.
InputFiles ==
    { [name |-> "index", format |-> "md"],
      [name |-> "about", format |-> "md"],
      [name |-> "post", format |-> "njk"],
      [name |-> "page", format |-> "html"] }

ConfigIdle ==
    /\ g_pc = "off"
    /\ g_conf = GeneratorDefaults
    /\ g_todo = {}
    /\ g_out = {}

InitConfig ==
    /\ g_pc = "start"
    /\ g_conf = GeneratorDefaults
    /\ g_todo \in SUBSET InputFiles
    /\ g_out = {}

\* The generator calls the config function and merges what it returns.
LoadConfig ==
    /\ g_pc = "start"
    /\ g_conf' = Effective(config)
    /\ g_pc' = "walk"
    /\ UNCHANGED <<g_todo, g_out>>
    /\ UNCHANGED configOthers

\* One template is rendered: a markdown or html file is first run through
\* the engine selected for its format, and the page goes to dir.output.
ProcessFile ==
    /\ g_pc = "walk"
    /\ \E f \in g_todo :
         /\ g_todo' = g_todo \ {f}
         /\ g_out' = g_out \cup
               { [ name |-> f.name,
                   format |-> f.format,
                   engine |-> CASE f.format = "md" -> g_conf.markdownTemplateEngine
                                [] f.format = "html" -> g_conf.htmlTemplateEngine
                                [] OTHER -> f.format,
                   from |-> g_conf.dir.input,
                   to |-> g_conf.dir.output ] }
    /\ UNCHANGED <<g_pc, g_conf>>
    /\ UNCHANGED configOthers

ConfigDone ==
    /\ g_pc = "walk"
    /\ g_todo = {}
    /\ g_pc' = "done"
    /\ UNCHANGED <<g_conf, g_todo, g_out>>
    /\ UNCHANGED configOthers

NextConfig == LoadConfig \/ ProcessFile \/ ConfigDone

(***************************************************************************)
(* Front matter as text and as data.  The text of a block is a sequence of *)
(* entries in file order; an entry is written in one of the YAML styles:   *)
(* plain, quoted, folded (>-), a block list, or nothing after the colon.   *)
(* Loading resolves a plain scalar to a boolean, a timestamp, null or a    *)
(* string; dumping writes each value in the style that loads back to it.   *)
(***************************************************************************)
Plain(k, t) == [key |-> k, style |-> "plain", text |-> t, items |-> <<>>]
Quoted(k, t) == [key |-> k, style |-> "quoted", text |-> t, items |-> <<>>]
Folded(k, lines) == [key |-> k, style |-> "folded", text |-> "", items |-> lines]
Empty(k) == [key |-> k, style |-> "plain", text |-> "", items |-> <<>>]
List(k, texts) ==
    [ key |-> k, style |-> "list", text |-> "",
      items |-> [ i \in DOMAIN texts |-> [style |-> "plain", text |-> texts[i]] ] ]

description_1 ==
    "In Part 1 we look at the basics of sockets by writing some simple server code. At the end we will have a server that we can telnet to, and that will echo our messages."
description_2 ==
    "In Part 2 we continue looking at sockets (and a little HTTP) by writing a simple client that can connect to our server. At the end of the post we will have a client that can make a valid HTTP request to a web server and process the response."
lines_1 ==
    << "In Part 1 we look at the basics of sockets by writing some simple server code.",
       "At the end we will have a server that we can telnet to, and that will echo our",
       "messages." >>
lines_2 ==
    << "In Part 2 we continue looking at sockets (and a little HTTP) by writing a",
       "simple client that can connect to our server. At the end of the post we will",
       "have a client that can make a valid HTTP request to a web server and process",
       "the response." >>
\* The first description folded by hand at other places.
lines_1_short ==
    << "In Part 1 we look at the basics of sockets",
       "by writing some simple server code. At the end we will have a server that we can telnet to, and that will echo our messages." >>

\* Folded lines are joined by single spaces.
Unfold(lines) ==
    CASE lines \in {lines_1, lines_1_short} -> description_1
      [] lines = lines_2 -> description_2
      [] OTHER -> ""

\* A string longer than the line width is dumped folded, cut at the last
\* space before the width.
TooWide(s) == s \in {description_1, description_2}
Fold(s) == IF s = description_1 THEN lines_1 ELSE lines_2

Str(s) == [type |-> "str", v |-> s, items |-> <<>>]
Null == [type |-> "null", v |-> "", items |-> <<>>]

\* The instant a timestamp scalar denotes, in the form the dumper writes.
Instant(t) ==
    CASE t = "2025-09-13" -> "2025-09-13T00:00:00.000Z"
      [] t = "2025-09-13T21:00:25.283+02:00" -> "2025-09-13T19:00:25.283Z"
      [] OTHER -> t
TimestampTexts ==
    { "2025-09-13T19:00:25.283Z", "2025-09-20T19:00:25.283Z",
      "2025-09-24T19:13:34.861Z", "2025-09-13T00:00:00.000Z",
      "2025-09-13", "2025-09-13T21:00:25.283+02:00" }

\* Implicit typing of a plain scalar.
Resolve(t) ==
    CASE t \in {"true", "True", "TRUE"} -> [type |-> "bool", v |-> "true", items |-> <<>>]
      [] t \in {"false", "False", "FALSE"} -> [type |-> "bool", v |-> "false", items |-> <<>>]
      [] t \in {"", "~", "null"} -> Null
      [] t \in TimestampTexts -> [type |-> "date", v |-> Instant(t), items |-> <<>>]
      [] OTHER -> Str(t)

LoadScalar(e) ==
    CASE e.style = "quoted" -> Str(e.text)
      [] e.style = "folded" -> Str(Unfold(e.items))
      [] OTHER -> Resolve(e.text)

Load(e) ==
    IF e.style = "list"
      THEN [ type |-> "seq", v |-> "",
             items |-> [ i \in DOMAIN e.items |->
                           [ type |-> LoadScalar(e.items[i]).type,
                             v |-> LoadScalar(e.items[i]).v ] ] ]
      ELSE LoadScalar(e)

\* Parsing keeps the keys in file order.
Parse(text) ==
    [ i \in DOMAIN text |-> [key |-> text[i].key, val |-> Load(text[i])] ]

\* A dumper that writes every string plain.
DumpStrPlain(k, s) == Plain(k, s)

\* A string is quoted when written plain it would load as something else.
DumpStr(k, s) ==
    IF Resolve(s) # Str(s) THEN Quoted(k, s)
    ELSE IF TooWide(s) THEN Folded(k, Fold(s))
    ELSE Plain(k, s)

DumpScalar(k, type, v) ==
    CASE type = "str" -> DumpStr(k, v)
      [] type = "null" -> Plain(k, "null")
      [] OTHER -> Plain(k, v)

Dump(k, val) ==
    IF val.type = "seq"
      THEN [ key |-> k, style |-> "list", text |-> "",
             items |-> [ i \in DOMAIN val.items |->
                           [ style |-> DumpScalar(k, val.items[i].type, val.items[i].v).style,
                             text |-> DumpScalar(k, val.items[i].type, val.items[i].v).text ] ] ]
      ELSE DumpScalar(k, val.type, val.v)

Stringify(data) == [ i \in DOMAIN data |-> Dump(data[i].key, data[i].val) ]

KeysOf(pairs) == { pairs[i].key : i \in DOMAIN pairs }
ValueOf(data, k) == (CHOOSE p \in { data[i] : i \in DOMAIN data } : p.key = k).val

\* The front matter blocks of the content files, as written.
text_sockets_python ==
    << Plain("title", "Understanding sockets with Python"),
       Plain("author", "Luca Salomoni"),
       Plain("date", "2025-09-13T19:00:25.283Z"),
       Plain("featured", "true"),
       Plain("draft", "false"),
       List("categories", <<"Networking">>),
       List("tags", <<"Sockets", "Python">>),
       Plain("description", "Learning about sockets by programming simple client/server code with Python") >>
text_sockets_python_1 ==
    << Plain("title", "Understanding sockets with Python - Part 1"),
       Plain("author", "Luca Salomoni"),
       Plain("date", "2025-09-20T19:00:25.283Z"),
       Plain("featured", "true"),
       Plain("draft", "false"),
       List("categories", <<"Networking">>),
       List("tags", <<"Sockets", "Python">>),
       Folded("description", lines_1) >>
text_sockets_python_2 ==
    << Plain("title", "Understanding sockets with Python - Part 2"),
       Plain("author", "Luca Salomoni"),
       Plain("date", "2025-09-24T19:13:34.861Z"),
       Plain("featured", "true"),
       Plain("draft", "false"),
       List("categories", <<"Networking">>),
       List("tags", <<"Sockets", "Python">>),
       Folded("description", lines_2) >>
text_sockets_python_uncategorized ==
    << Plain("title", "Understanding sockets with Python"),
       Plain("author", "Luca Salomoni"),
       Plain("date", "2025-09-13T19:00:25.283Z"),
       Plain("featured", "true"),
       Plain("draft", "false"),
       List("tags", <<"Sockets", "Networking", "Python">>),
       Plain("description", "Learning about sockets by programming simple client/server code with Python") >>
ContentFiles ==
    { text_sockets_python, text_sockets_python_1, text_sockets_python_2,
      text_sockets_python_uncategorized }

\* Other blocks an author can write: each slot is an entry or nothing.
TitleTexts ==
    { <<Plain("title", "Understanding sockets with Python")>>,
      <<Quoted("title", "Understanding sockets with Python")>>,
      <<Quoted("title", "true")>>,
      <<Quoted("title", "2025-09-13")>> }
DateTexts ==
    { <<Plain("date", "2025-09-13T19:00:25.283Z")>>,
      <<Plain("date", "2025-09-13")>>,
      <<Plain("date", "2025-09-13T21:00:25.283+02:00")>> }
DraftTexts == { <<Plain("draft", "false")>>, <<Plain("draft", "True")>>, <<>> }
CategoryTexts ==
    { <<List("categories", <<"Networking">>)>>, <<Empty("categories")>>,
      <<List("categories", <<"2025-09-13", "true">>)>> }
DescriptionTexts ==
    { <<Folded("description", lines_1)>>, <<Folded("description", lines_1_short)>>,
      <<Plain("description", description_2)>>, <<>> }
FrontMatterTexts ==
    ContentFiles \cup
    { t \o <<Plain("author", "Luca Salomoni")>> \o d \o dr \o c \o de :
        t \in TitleTexts, d \in DateTexts, dr \in DraftTexts,
        c \in CategoryTexts, de \in DescriptionTexts }

MatterIdle ==
    /\ y_pc = "off"
    /\ y_text = <<>>
    /\ y_data = <<>>
    /\ y_trips = <<>>

InitMatter ==
    /\ y_pc = "text"
    /\ y_text \in FrontMatterTexts
    /\ y_data = <<>>
    /\ y_trips = <<>>

\* Parse the block the file holds.
ParseFrontMatter ==
    /\ y_pc = "text"
    /\ Len(y_trips) < MaxTrips
    /\ y_data' = Parse(y_text)
    /\ y_pc' = "data"
    /\ UNCHANGED <<y_text, y_trips>>
    /\ UNCHANGED matterOthers

\* Write the parsed data back as the file's block; the trip is recorded.
Serialise ==
    /\ y_pc = "data"
    /\ y_text' = Stringify(y_data)
    /\ y_trips' = Append(y_trips, [from |-> y_text, data |-> y_data, to |-> y_text'])
    /\ y_pc' = "text"
    /\ UNCHANGED y_data
    /\ UNCHANGED matterOthers

NextMatter == ParseFrontMatter \/ Serialise

(***************************************************************************)
(* Calls of the dictionary's formatters.  The dictionary is an object a    *)
(* call could assign to, so it is part of the state; every call is         *)
(* recorded with its argument and the string it returned.                  *)
(***************************************************************************)
NoDate == [y |-> 0, m |-> 1, d |-> 0, h |-> 0, min |-> 0]
OfString(s) == [s |-> s, dt |-> NoDate]
OfDate(dt) == [s |-> "", dt |-> dt]

TakesDate(k) == k \in { <<"date", "shortFormat">>, <<"date", "fullFormat">> }

\* The arguments a page passes to the formatter at key k.
FormatterArgs(k) ==
    CASE k[1] \in {"tag", "category"} -> { OfString(t) : t \in TagNames }
      [] TakesDate(k) -> { OfDate(dt) : dt \in DateTimes }
      [] OTHER -> { OfString(s) : s \in DateStrings }

\* The string the formatter at key k of dictionary dict returns for a.
Apply(dict, k, a) ==
    IF TakesDate(k) THEN dict[k[1]][k[2]][a.dt] ELSE dict[k[1]][k[2]][a.s]

DictIdle ==
    /\ t_dict = _t
    /\ t_calls = 0
    /\ t_seen = {}

InitDict == DictIdle

\* A formatter that keeps what it returned and returns it from then on.
CallFormatterMemo(k, a) ==
    /\ t_calls < MaxFormats
    /\ t_seen' = t_seen \cup { [key |-> k, arg |-> a, out |-> Apply(t_dict, k, a)] }
    /\ t_dict' = [ t_dict EXCEPT ![k[1]][k[2]] =
                     [ x \in DOMAIN @ |-> Apply(t_dict, k, a) ] ]
    /\ t_calls' = t_calls + 1
    /\ UNCHANGED dictOthers

\* One call _t.group.name(a): the body reads its argument only.
CallFormatter(k, a) ==
    /\ t_calls < MaxFormats
    /\ t_seen' = t_seen \cup { [key |-> k, arg |-> a, out |-> Apply(t_dict, k, a)] }
    /\ t_calls' = t_calls + 1
    /\ UNCHANGED t_dict
    /\ UNCHANGED dictOthers

NextDict == \E k \in FormatterKeys : \E a \in FormatterArgs(k) : CallFormatter(k, a)

(***************************************************************************)
(* Specifications, one for each subsystem.                                 *)
(***************************************************************************)
InitSiteSpec ==
    /\ SiteIdle
    /\ BuildIdle
    /\ PageIdle
    /\ DockerIdle
    /\ JoinIdle
    /\ ServerIdle
    /\ ClientIdle
    /\ LoggerIdle
    /\ ConfigIdle
    /\ MatterIdle
    /\ DictIdle
    /\ ResponseIdle
InitBuildSpec ==
    /\ SiteIdle
    /\ InitBuild
    /\ PageIdle
    /\ DockerIdle
    /\ JoinIdle
    /\ ServerIdle
    /\ ClientIdle
    /\ LoggerIdle
    /\ ConfigIdle
    /\ MatterIdle
    /\ DictIdle
    /\ ResponseIdle
InitCompleteBuildSpec ==
    /\ SiteIdle
    /\ InitCompleteBuild
    /\ PageIdle
    /\ DockerIdle
    /\ JoinIdle
    /\ ServerIdle
    /\ ClientIdle
    /\ LoggerIdle
    /\ ConfigIdle
    /\ MatterIdle
    /\ DictIdle
    /\ ResponseIdle
InitPageSpec ==
    /\ SiteIdle
    /\ BuildIdle
    /\ InitPage
    /\ DockerIdle
    /\ JoinIdle
    /\ ServerIdle
    /\ ClientIdle
    /\ LoggerIdle
    /\ ConfigIdle
    /\ MatterIdle
    /\ DictIdle
    /\ ResponseIdle
InitDockerSpec ==
    /\ SiteIdle
    /\ BuildIdle
    /\ PageIdle
    /\ InitDocker
    /\ JoinIdle
    /\ ServerIdle
    /\ ClientIdle
    /\ LoggerIdle
    /\ ConfigIdle
    /\ MatterIdle
    /\ DictIdle
    /\ ResponseIdle
InitJoinSpec ==
    /\ SiteIdle
    /\ BuildIdle
    /\ PageIdle
    /\ DockerIdle
    /\ InitJoin
    /\ ServerIdle
    /\ ClientIdle
    /\ LoggerIdle
    /\ ConfigIdle
    /\ MatterIdle
    /\ DictIdle
    /\ ResponseIdle
InitEchoSpec ==
    /\ SiteIdle
    /\ BuildIdle
    /\ PageIdle
    /\ DockerIdle
    /\ JoinIdle
    /\ InitEcho
    /\ ClientIdle
    /\ LoggerIdle
    /\ ConfigIdle
    /\ MatterIdle
    /\ DictIdle
    /\ ResponseIdle
InitHttpSpec ==
    /\ SiteIdle
    /\ BuildIdle
    /\ PageIdle
    /\ DockerIdle
    /\ JoinIdle
    /\ InitHttp
    /\ ClientIdle
    /\ LoggerIdle
    /\ ConfigIdle
    /\ MatterIdle
    /\ DictIdle
    /\ ResponseIdle
InitServerSpec ==
    /\ SiteIdle
    /\ BuildIdle
    /\ PageIdle
    /\ DockerIdle
    /\ JoinIdle
    /\ InitAnyServer
    /\ ClientIdle
    /\ LoggerIdle
    /\ ConfigIdle
    /\ MatterIdle
    /\ DictIdle
    /\ ResponseIdle
InitReadClientSpec ==
    /\ SiteIdle
    /\ BuildIdle
    /\ PageIdle
    /\ DockerIdle
    /\ JoinIdle
    /\ ServerIdle
    /\ InitReadClient
    /\ LoggerIdle
    /\ ConfigIdle
    /\ MatterIdle
    /\ DictIdle
    /\ ResponseIdle
InitLengthClientSpec ==
    /\ SiteIdle
    /\ BuildIdle
    /\ PageIdle
    /\ DockerIdle
    /\ JoinIdle
    /\ ServerIdle
    /\ InitLengthClient
    /\ LoggerIdle
    /\ ConfigIdle
    /\ MatterIdle
    /\ DictIdle
    /\ ResponseIdle
InitLoggerSpec ==
    /\ SiteIdle
    /\ BuildIdle
    /\ PageIdle
    /\ DockerIdle
    /\ JoinIdle
    /\ ServerIdle
    /\ ClientIdle
    /\ LoggerIdle
    /\ ConfigIdle
    /\ MatterIdle
    /\ DictIdle
    /\ ResponseIdle
InitConfigSpec ==
    /\ SiteIdle
    /\ BuildIdle
    /\ PageIdle
    /\ DockerIdle
    /\ JoinIdle
    /\ ServerIdle
    /\ ClientIdle
    /\ LoggerIdle
    /\ InitConfig
    /\ MatterIdle
    /\ DictIdle
    /\ ResponseIdle
InitMatterSpec ==
    /\ SiteIdle
    /\ BuildIdle
    /\ PageIdle
    /\ DockerIdle
    /\ JoinIdle
    /\ ServerIdle
    /\ ClientIdle
    /\ LoggerIdle
    /\ ConfigIdle
    /\ InitMatter
    /\ DictIdle
    /\ ResponseIdle
InitDictSpec ==
    /\ SiteIdle
    /\ BuildIdle
    /\ PageIdle
    /\ DockerIdle
    /\ JoinIdle
    /\ ServerIdle
    /\ ClientIdle
    /\ LoggerIdle
    /\ ConfigIdle
    /\ MatterIdle
    /\ InitDict
    /\ ResponseIdle
InitResponseSpec ==
    /\ SiteIdle
    /\ BuildIdle
    /\ PageIdle
    /\ DockerIdle
    /\ JoinIdle
    /\ ServerIdle
    /\ ClientIdle
    /\ LoggerIdle
    /\ ConfigIdle
    /\ MatterIdle
    /\ DictIdle
    /\ InitResponse

SpecSite == InitSiteSpec /\ [][NextSite]_vars
SpecBuild == InitBuildSpec /\ [][NextBuild]_vars
SpecCompleteBuild == InitCompleteBuildSpec /\ [][NextBuild]_vars
SpecPage == InitPageSpec /\ [][NextPage]_vars
SpecDocker == InitDockerSpec /\ [][NextDocker]_vars
SpecJoin == InitJoinSpec /\ [][NextJoin]_vars
SpecEcho == InitEchoSpec /\ [][NextEcho]_vars
SpecHttp == InitHttpSpec /\ [][NextHttp]_vars
SpecServer == InitServerSpec /\ [][NextServer]_vars
SpecResponse == InitResponseSpec /\ [][NextResponse]_vars
SpecReadClient == InitReadClientSpec /\ [][NextReadClient]_vars
SpecLengthClient == InitLengthClientSpec /\ [][NextLengthClient]_vars
SpecLogger == InitLoggerSpec /\ [][NextLogger]_vars
SpecConfig == InitConfigSpec /\ [][NextConfig]_vars
SpecMatter == InitMatterSpec /\ [][NextMatter]_vars
SpecDict == InitDictSpec /\ [][NextDict]_vars

(***************************************************************************)
(* Properties.                                                             *)
(***************************************************************************)
IsDraft(fm) == "draft" \in fm.keys /\ fm.draft

\* C1: in a production build no file whose front matter has draft = true is
\* in the output file list; every emitted file is one of the store whose
\* draft is false or absent.
C1_NoDraftInProduction ==
    b_mode = "production" =>
        \A f \in b_out : f \in 1..Len(store) /\ ~IsDraft(store[f])

\* A production build of a store with a draft post completed and emitted
\* some other post.
C1_Witness ==
    /\ b_pc = "done"
    /\ b_mode = "production"
    /\ b_out # {}
    /\ \E f \in 1..Len(store) : IsDraft(store[f])

CeilDiv(n, p) == (n + p - 1) \div p

PageSizes == [i \in 1..Len(pg_pages) |-> Len(pg_pages[i])]

\* C2: with page size p = SITE.postPerPage = 4 an index of n posts is split
\* into ceil(n/p) pages, every page but the last of p posts, the last of 1
\* to p, every post on exactly one page; 9 posts give pages of 4, 4 and 1.
C2_Pagination ==
    pg_pc = "done" =>
        LET n == Len(pg_index)
            p == SITE.postPerPage
            last == Len(pg_pages)
        IN /\ last = CeilDiv(n, p)
           /\ \A i \in 1..(last - 1) : Len(pg_pages[i]) = p
           /\ last > 0 => Len(pg_pages[last]) \in 1..p
           /\ \A x \in 1..n :
                Cardinality({ <<i, j>> \in (1..last) \X (1..p) :
                                j <= Len(pg_pages[i]) /\ pg_pages[i][j] = pg_index[x] }) = 1
           /\ n = 9 => PageSizes = <<4, 4, 1>>

\* An index of 9 posts has been paginated.
C2_Witness ==
    /\ pg_pc = "done"
    /\ Len(pg_index) = 9
    /\ Len(pg_pages) = 3

\* C3: a lookup of a key of the dictionary gives the entry (archives.title
\* gives "Archives") and the build goes on; a lookup of a key that is not in
\* the dictionary leaves the build failed, with no text rendered and
\* nothing emitted.
C3_LookupSucceedsOrFailsBuild ==
    \A k \in b_refs :
        IF k \in DictKeys
          THEN /\ b_pc \in {"emit", "done"}
               /\ b_err = NoError
               /\ b_text # ""
               /\ k \in StringKeys => b_text = _t[k[1]][k[2]]
               /\ k = <<"archives", "title">> => b_text = "Archives"
          ELSE /\ b_pc = "failed"
               /\ b_err.kind = "i18n"
               /\ b_text = ""
               /\ b_out = {}

\* A page looked up a key that is not in the dictionary.
C3_Witness ==
    /\ b_refs \cap AbsentKeys # {}
    /\ b_pc = "failed"

InstallCmd == "pnpm install --frozen-lockfile"
BuildCmd == "pnpm run build"

\* C4: an image exists only once the build is over, and then the frozen
\* install and the generator have both succeeded (so the lockfile was there
\* and in step and the generator reported no error); a failed build has no
\* image; and a build that fails in the second stage lacks dist in the
\* builder stage or Caddyfile in the context.
C4_TwoPhases ==
    /\ d_image # {} => d_status = "built"
    /\ d_status = "built" =>
          /\ {InstallCmd, BuildCmd} \subseteq d_ran
          /\ d_env.lock = "ok" /\ d_env.gen = "ok"
          /\ d_image # {}
    /\ d_stage = "final" => {InstallCmd, BuildCmd} \subseteq d_ran
    /\ (d_status = "failed" /\ d_stage = "final") =>
          ("/app/dist" \notin d_builder \/ ~d_env.caddyfile)
    /\ (d_env.lock # "ok" \/ d_env.gen = "error") =>
          (d_status # "built" /\ d_stage # "final")

\* A build went through both stages and produced the serving image.
C4_Witness ==
    /\ d_status = "built"
    /\ d_stage = "final"
    /\ "/etc/caddy/Caddyfile" \in d_image

\* C5: the configuration record always has the value it was loaded with,
\* and whatever a component read from it is the value at load.
C5_SiteNeverChanges ==
    /\ site = SITE
    /\ \A c \in Components :
          seen[c].attr # "none" => seen[c].value = SITE[seen[c].attr]

\* Two components have read the nested editPost record.
C5_Witness ==
    \A c \in Components : seen[c].attr = "editPost"

MalformedStore == \E f \in 1..Len(store) : MissingRequired(store[f]) # {}

\* C6: a build whose store has a file without title, author or date never
\* gets past loading and emits nothing; when it has failed, the error names
\* a file and a required field that file lacks.
C6_MalformedFailsBuild ==
    MalformedStore =>
        /\ b_pc \in {"load", "failed"}
        /\ b_out = {}
        /\ \A i \in 1..Len(b_posts) : MissingRequired(store[b_posts[i].file]) = {}
        /\ b_pc = "failed" =>
              /\ b_err.kind = "schema"
              /\ b_err.file \in 1..Len(store)
              /\ b_err.field \in MissingRequired(store[b_err.file])

\* A build failed on a file that has no date, after loading a well-formed one.
C6_Witness ==
    /\ b_pc = "failed"
    /\ b_err.field = "date"
    /\ Len(b_posts) > 0

\* C7: safe_join returns None or a path inside public_dir.
C7_SafeJoinStaysInside ==
    sj_pc = "ret" => (sj_res = None \/ Inside(PUBLIC_DIR, sj_res))

\* C8: the echo server's accept loop is not left because a client closed
\* its connection (having sent something or nothing): once a client that
\* sends text and closes has been accepted, the server stops only when the
\* user interrupts it.
C8_EchoKeepsServing ==
    (s_ver = "echo" /\ s_cli.then = "close" /\ Decodable(s_cli.bytes)) =>
        (s_pc \in {"stopped", "crashed"} => s_why = "KeyboardInterrupt")

\* The path of a GET request line (method, path and version), "/" standing
\* for "/index.html"; None for any other request.
RequestedPath(request) ==
    LET parts == SplitWhitespace(SplitOn(request, CRLF)[1])
    IN IF Len(parts) = 3 /\ parts[1] = <<"GET">>
         THEN (IF parts[2] = <<SLASH>> THEN <<SLASH, "index.html">> ELSE parts[2])
         ELSE None

\* The response C9 describes for a requested path.
FileOrNotFound(fs, path) ==
    LET target == NormPath(PUBLIC_DIR \o <<SLASH>> \o LStripSlash(path))
    IN IF Inside(PUBLIC_DIR, target) /\ target \in DOMAIN fs
         THEN build_response(200, fs[target])
         ELSE build_response(404, IF NotFoundPath \in DOMAIN fs
                                    THEN fs[NotFoundPath] ELSE FallbackBody)

\* C9: for a complete GET request (here: one below the header size limit)
\* the file-serving handle_conn returns 200 with the file's bytes when the
\* path is an existing file under PUBLIC_DIR, and otherwise 404 with the
\* content of 404.html or the built-in body.
C9_FileOr404 ==
    ( /\ s_ver = "files"
      /\ s_pc = "send"
      /\ HasTerminator(s_req)
      /\ ByteLen(s_req) < MAX_HEADER_SIZE
      /\ Decodable(s_req)
      /\ RequestedPath(s_req) # None )
    => s_resp = FileOrNotFound(s_fs, RequestedPath(s_req))

\* C10: once a recv on the connection has timed out before the header
\* terminator arrived, the response handle_conn returned is the 408 response,
\* nothing but it is sent on the connection, and when the connection has
\* been served it is exactly what was sent.
C10_TimeoutAnswered408 ==
    s_timed =>
        LET r408 == IF s_ver = "status"
                      THEN CONNECTION_TIMEOUT
                      ELSE <<"HTTP/1.1 408 Request Timeout", CRLF,
                             "Connection: close", CRLF, CRLF>>
        IN /\ ~HasTerminator(s_req)
           /\ s_resp = r408
           /\ \A i \in 1..Len(s_sent) : s_sent[i] = r408
           /\ s_pc = "accept" => s_sent = <<r408>>

\* A connection whose client sent part of a request and fell silent has
\* been answered.
C10_Witness ==
    /\ s_timed
    /\ s_pc = "accept"
    /\ s_req # <<>>
    /\ Len(s_sent) = 1

TooLarge(ver) == IF ver = "status" THEN CONTENT_TOO_LARGE
                 ELSE <<"HTTP/1.1 431 Request Header Fields Too Large", CRLF,
                        "Connection: close", CRLF, CRLF>>

\* C11: handle_conn returns the header-too-large response (413 in the first
\* version, 431 in the file-serving one) only when the request read so far
\* has reached MAX_HEADER_SIZE bytes and holds no CRLF CRLF; a request that
\* holds the terminator is not answered with it.
C11_TooLargeOnlyWithoutTerminator ==
    (s_ver \in {"status", "files"} /\ s_resp = TooLarge(s_ver)) =>
        (ByteLen(s_req) >= MAX_HEADER_SIZE /\ ~HasTerminator(s_req))

\* C14: on a connection of the echo server nothing is sent before data has
\* been received, whatever is sent is the bytes of the one recv, and once
\* the server is done with a connection on which it received data (the
\* client not having reset it, the user not having interrupted), those bytes
\* have been sent back, once.
C14_EchoSendsBackData ==
    s_ver = "echo" =>
        /\ s_req = <<>> => s_sent = <<>>
        /\ \A i \in 1..Len(s_sent) : s_sent[i] = s_req
        /\ ( /\ s_req # <<>>
             /\ s_pc \notin {"recv", "send"}
             /\ s_cli.then # "reset"
             /\ s_why # "KeyboardInterrupt" )
           => s_sent = <<s_req>>

C15_OneOpen ==
    /\ Cardinality(s_open) <= 1
    /\ s_pc = "accept" => s_open = {}
    /\ s_pc \in {"recv", "handle", "send"} => s_open = {s_n}

C15_AcceptAfterClose ==
    s_n' # s_n => (s_open = {} /\ s_queue > 0 /\ s_open' = {s_n'})

\* C15: at most one accepted socket is open; while the server is in accept
\* none is; a connection is accepted only when no accepted socket is open,
\* and it is taken from the connections waiting in the backlog.
C15_OneConnectionAtATime == []C15_OneOpen /\ [][C15_AcceptAfterClose]_vars

\* A second connection is being served, the first having been closed.
C15_Witness ==
    /\ s_n = 2
    /\ s_open = {2}
    /\ s_pc = "send"

\* What the server sent after the first CRLF CRLF.
SentBody == BodyOf(c_srv.bytes)

RECURSIVE Flatten(_)
Flatten(chunks) == IF chunks = <<>> THEN <<>> ELSE Head(chunks) \o Flatten(Tail(chunks))

\* The response has its headers, they are text with a Content-Length that is
\* a number (or none), and the body sent is at least that long and is text.
WellFormed(remote) ==
    /\ HasTerminator(remote.bytes)
    /\ Decodable(remote.bytes)
    /\ BodyLength(HeadersOf(remote.bytes)) # ValueError
    /\ ByteLen(BodyOf(remote.bytes)) >= remote.length

\* The client waits in a recv that has nothing to return: every byte the
\* server sent has been delivered.
Blocked ==
    /\ c_pc = "head" \/ (c_pc = "body" /\ ByteLen(c_body) < c_len)
    /\ Pending = <<>>

C12_ReadsTheDeclaredLength ==
    c_ver = "length" =>
        /\ c_pc \in {"body", "done"} =>
              /\ c_len = c_srv.length
              /\ Len(c_body) <= Len(SentBody)
              /\ c_body = SubSeq(SentBody, 1, Len(c_body))
        /\ c_pc = "done" => ByteLen(c_body) >= c_len
        /\ (c_srv.then = "keepalive" /\ WellFormed(c_srv)) =>
              (~Blocked /\ c_pc \notin {"crashed", "failed"})

C12_RecvUntilComplete ==
    c_ver = "length" =>
        /\ (c_pc = "body" /\ ByteLen(c_body) >= c_len) => (c_pos' = c_pos /\ c_pc' \in {"done", "crashed"})
        /\ (c_pc = "body" /\ ByteLen(c_body) < c_len) => (c_pos' > c_pos \/ c_pc' # "body" \/ RecvEmpty)

\* C12: once the headers are in, body_length is the number the server gave in
\* Content-Length and body is the start of what the server sent after the
\* headers; while body is shorter than body_length the client reads on, once
\* it is not it reads no more and ends, so it is done only with at least
\* body_length bytes; and with a well-formed response on a connection the
\* server keeps open it is never left waiting in a recv with nothing to come.
C12_ContentLengthClient ==
    []C12_ReadsTheDeclaredLength /\ [][C12_RecvUntilComplete]_vars

\* The client is done on a connection the server keeps open, after a body
\* that took more than one recv.
C12_Witness ==
    /\ c_ver = "length"
    /\ c_pc = "done"
    /\ c_srv.then = "keepalive"
    /\ c_len = ByteLen(Fill(2))
    /\ c_body = Fill(2)

C13_ReadLoop ==
    c_ver = "read" =>
        /\ c_buf = Flatten(c_chunks)
        /\ c_srv.then = "keepalive" => c_pc = "read"
        /\ c_pc \in {"done", "crashed"} =>
              /\ c_srv.then = "close"
              /\ c_buf = c_srv.bytes

C13_LoopEnd ==
    (c_ver = "read" /\ c_pc = "read") =>
        /\ c_pc' # "read" => (Pending = <<>> /\ c_srv.then \in {"close", "reset"})
        /\ RecvEmpty => c_pc' \in {"done", "crashed"}
        /\ c_pc' = "read" => (Len(c_chunks') = Len(c_chunks) + 1 /\ c_chunks'[Len(c_chunks')] # <<>>)

ConsoleHandlers(name) ==
    Cardinality({ i \in 1..Len(lg[name].handlers) : lg[name].handlers[i] = "StreamHandler" })

\* C16: every logger get_logger has been called for has at most one console
\* handler and the level INFO, however often it was called and whatever
\* handlers other code attached.
C16_OneConsoleHandler ==
    \A name \in LoggerNames :
        lg_calls[name] > 0 =>
            /\ ConsoleHandlers(name) <= 1
            /\ lg[name].level = INFO

\* get_logger was called twice for one name and for another that had a
\* handler of other code before the call.
C16_Witness ==
    /\ lg_calls["server"] = 2
    /\ lg["server"].handlers = <<"StreamHandler">>
    /\ lg_calls["client"] = 1
    /\ lg["client"].handlers = <<"FileHandler">>

\* Where the repository's Dockerfile puts the compiled site in the image.
DistRoot == "/var/www/talama.dev"

\* C17: the image of every successful build, whichever of the repository's
\* build definitions it ran, holds the compiled site at the one path DistRoot
\* and the server configuration at /etc/caddy/Caddyfile.
C17_DistAtOneFixedPath ==
    d_status = "built" => d_image = {DistRoot, "/etc/caddy/Caddyfile"}

\* C18: once the generator has read the configuration, the four directory
\* mappings are those the configuration declares and markdown is run through
\* njk: every markdown page was rendered with njk, from src into dist.
C18_ConfigTakesEffect ==
    g_pc \in {"walk", "done"} =>
        /\ g_conf.dir = [ output |-> "dist", input |-> "src",
                          includes |-> "_includes", layouts |-> "_layouts" ]
        /\ g_conf.markdownTemplateEngine = "njk"
        /\ \A o \in g_out :
              /\ o.from = "src" /\ o.to = "dist"
              /\ o.format = "md" => o.engine = "njk"

\* C19: every parse-then-serialise trip keeps the key set of the block and
\* the values of title, author and date (the block written back parses to
\* the same values), and from the second trip on the block is written back
\* exactly as it was.
C19_FrontMatterRoundTrip ==
    \A i \in DOMAIN y_trips :
        /\ KeysOf(y_trips[i].to) = KeysOf(y_trips[i].from)
        /\ \A k \in RequiredKeys \cap KeysOf(y_trips[i].from) :
              ValueOf(Parse(y_trips[i].to), k) = ValueOf(y_trips[i].data, k)
        /\ i >= 2 => y_trips[i].to = y_trips[i].from

\* Two trips were made on a block whose title had to be quoted and whose
\* first trip rewrote the text.
C19_Witness ==
    /\ Len(y_trips) = 2
    /\ y_trips[1].to # y_trips[1].from
    /\ \E i \in DOMAIN y_text : y_text[i].key = "title" /\ y_text[i].style = "quoted"
    /\ \E i \in DOMAIN y_text : y_text[i].key = "date" /\ y_text[i].text = "2025-09-13T00:00:00.000Z"

\* C20: calls of one formatter with equal arguments returned equal strings
\* (each the string the source's template gives), and a call leaves the
\* dictionary and every other variable but the record of calls as it was.
C20_EqualArgsEqualStrings ==
    \A r1, r2 \in t_seen :
        (r1.key = r2.key /\ r1.arg = r2.arg) =>
            /\ r1.out = r2.out
            /\ r1.out = Apply(en, r1.key, r1.arg)
C20_CallChangesNothing ==
    /\ t_dict' = t_dict
    /\ UNCHANGED dictOthers
C21_FrontMatterDefaults ==
    /\ \A i \in 1..Len(b_posts) :
          /\ "draft" \notin store[b_posts[i].file].keys => ~b_posts[i].draft
          /\ "featured" \notin store[b_posts[i].file].keys => ~b_posts[i].featured
    /\ b_pc = "done" =>
          \A f \in 1..Len(store) : "draft" \notin store[f].keys => f \in b_out
    /\ b_err.kind # "schema"

\* A production build emitted a post that gives neither draft nor featured
\* nor categories, tags and description.
C21_Witness ==
    /\ b_pc = "done"
    /\ b_mode = "production"
    /\ \E f \in b_out :
          store[f].keys \cap OptionalKeys = {}

\* The request line (the bytes before the first CRLF) and its tokens, read
\* off the bytes: a token starts at a byte that is not a space and follows a
\* space or nothing.
RequestLineOf(request) ==
    IF \E i \in 1..Len(request) : request[i] = CRLF
      THEN SubSeq(request, 1, (CHOOSE i \in 1..Len(request) :
                                 /\ request[i] = CRLF
                                 /\ \A j \in 1..(i - 1) : request[j] # CRLF) - 1)
      ELSE request
TokenStarts(line) ==
    { i \in 1..Len(line) : line[i] # SP /\ (i = 1 \/ line[i - 1] = SP) }
TokenAt(line, i) ==
    SubSeq(line, i, CHOOSE j \in i..Len(line) :
                      /\ \A k \in i..j : line[k] # SP
                      /\ (j = Len(line) \/ line[j + 1] = SP))
\* The request line is three tokens and the first is GET; the second token.
IsGetLine(line) ==
    /\ Cardinality(TokenStarts(line)) = 3
    /\ \E i \in TokenStarts(line) :
          /\ \A j \in TokenStarts(line) : i <= j
          /\ TokenAt(line, i) = <<"GET">>
SecondToken(line) ==
    TokenAt(line, CHOOSE i \in TokenStarts(line) :
                    Cardinality({ j \in TokenStarts(line) : j < i }) = 1)

\* Handle_conn of the file-serving version has gone through parse_request.
Parsed == s_ver = "files" /\ s_pc = "send" /\ s_status = 0

\* C22: when handle_conn has called parse_request, the result is a path only
\* if the request line is three tokens with the method GET (and then it is
\* the second token, /index.html for /); otherwise the result is None, the
\* response is 400 Bad Request, and no path was handed to isfile or open.
C22_ParseRequest ==
    Parsed =>
        IF IsGetLine(RequestLineOf(s_req))
          THEN /\ parse_request(s_req) # None
               /\ parse_request(s_req) =
                     (IF SecondToken(RequestLineOf(s_req)) = <<SLASH>>
                        THEN <<SLASH, "index.html">>
                        ELSE SecondToken(RequestLineOf(s_req)))
          ELSE /\ parse_request(s_req) = None
               /\ s_resp = <<"HTTP/1.1 400 Bad Request", CRLF, "Connection: close", CRLF, CRLF>>
               /\ s_reads = {}

\* A complete POST request was answered 400 on a server that has files.
C22_Witness ==
    /\ Parsed
    /\ s_fs = FsFull
    /\ RequestLineOf(s_req) = RequestLine("POST", <<SLASH>>)
    /\ s_resp = build_response(400, <<>>)

\* The header lines of a response: what stands before its first CRLF CRLF,
\* without the line breaks.
HeaderLines(response) ==
    { response[i] : i \in { j \in 1..(TerminatorAt(response) - 1) : response[j] # CRLF } }
SizeLine(n) == "Content-Length: " \o ToString(n)
SizeLines == { SizeLine(n) : n \in 0..(MaxBodyLen * FillBytes) }

\* C23: the response build_response returns starts with the status line of
\* the code, has a first CRLF CRLF with Connection: close among the lines
\* before it and exactly the body after it, lines and line breaks alternate
\* up to it, and it has a Content-Length line exactly when the body is not
\* empty: then one such line, giving the number of bytes of the body.
C23_WellFormedResponse ==
    r_pc = "built" =>
        /\ r_out[1] = "HTTP/1.1 " \o ToString(r_code) \o " " \o Reason(r_code)
        /\ HasTerminator(r_out)
        /\ \A i \in 1..TerminatorAt(r_out) : (r_out[i] = CRLF) <=> (i % 2 = 0)
        /\ "Connection: close" \in HeaderLines(r_out)
        /\ BodyOf(r_out) = r_body
        /\ IF r_body = <<>>
             THEN HeaderLines(r_out) \cap SizeLines = {}
             ELSE HeaderLines(r_out) \cap SizeLines = {SizeLine(ByteLen(r_body))}

\* A 404 was built with a body that has a blank line in it, and a code
\* without a reason was built with no body.
C23_Witness ==
    /\ r_pc = "built"
    /\ \/ /\ r_code = 404
          /\ r_body = <<CRLF, CRLF>>
          /\ "Content-Length: 4" \in HeaderLines(r_out)
       \/ /\ r_code = 418
          /\ r_body = <<>>
          /\ r_out = <<"HTTP/1.1 418 Unknown", CRLF, "Connection: close", CRLF, CRLF>>

C25_ClientCannotStopServer ==
    s_ver = "files" =>
        (s_pc \in {"stopped", "crashed"} => s_why = "KeyboardInterrupt")

\* C26: the header loop of the Content-Length client is not running after a
\* recv in it has returned zero bytes.
C26_HeaderLoopEndsOnClose ==
    (c_ver = "length" /\ c_pc = "head") => c_empty = 0

\* C27: in the file-serving handle_conn the read loop goes on only while the
\* request is shorter than MAX_HEADER_SIZE, every recv that returned data
\* having added at least one byte to it, and once the loop is over
\* handle_conn ends by returning a response, never by an exception.
C27_ReadLoopEndsWithResponse ==
    s_ver = "files" =>
        /\ s_pc = "recv" =>
              /\ ByteLen(s_req) < MAX_HEADER_SIZE
              /\ s_pos <= ByteLen(s_req)
              /\ ~HasTerminator(s_req)
        /\ s_pc = "send" => s_resp # <<>>
        /\ s_exc \in {"", "socket.timeout", "ConnectionResetError", "PermissionError"}

\* The responses build_response can give on a server with the files fs.
Built(fs) ==
    { build_response(code, body) :
        code \in StatusCodes,
        body \in {<<>>, FallbackBody} \cup { fs[p] : p \in DOMAIN fs } }

\* C28: on the file-serving server at most one response is sent on a
\* connection, it is the one handle_conn returned, it is one build_response
\* gives, and it is sent when reading is over; while the connection is open
\* nothing has been sent on it yet; and a connection on which handle_conn
\* returned and that is closed (not by the user stopping the server) has had
\* its response sent.
C28_OneResponsePerConnection ==
    s_ver = "files" =>
        /\ Len(s_sent) <= 1
        /\ s_sent # <<>> =>
              /\ s_sent = <<s_resp>>
              /\ s_resp \in Built(s_fs)
              /\ s_pc \notin {"recv", "handle", "send"}
        /\ s_n \in s_open => s_sent = <<>>
        /\ ( /\ s_n >= 1
             /\ s_n \notin s_open
             /\ s_exc # "UnicodeDecodeError"
             /\ s_why # "KeyboardInterrupt" )
           => Len(s_sent) = 1

C29_RequestBelowLimit ==
    s_ver \in {"status", "files"} =>
        /\ ByteLen(s_req) < MAX_HEADER_SIZE + 1024
        /\ s_pc = "recv" => ByteLen(s_req) < MAX_HEADER_SIZE
C29_NoRecvAtLimit ==
    (s_ver \in {"status", "files"} /\ ByteLen(s_req) >= MAX_HEADER_SIZE) =>
        (s_n' = s_n => (s_pos' = s_pos /\ s_req' = s_req))

\* C29: in both HTTP versions the request handle_conn has accumulated is
\* shorter than MAX_HEADER_SIZE + 1024 bytes, it is shorter than
\* MAX_HEADER_SIZE whenever the loop is about to call recv, and once it has
\* reached MAX_HEADER_SIZE nothing more is read from the connection.
C29_BoundedRequest == []C29_RequestBelowLimit /\ [][C29_NoRecvAtLimit]_vars

\* The loop was left on the size limit while the client had more to send.
C29_Witness ==
    /\ s_ver \in {"status", "files"}
    /\ s_pc = "send"
    /\ ByteLen(s_req) > MAX_HEADER_SIZE
    /\ Remaining # <<>>

\* C30: on both HTTP versions, what is sent to a client that closed its side
\* without having sent CRLF CRLF is not a 200 response.
C30_IncompleteNotOk ==
    ( /\ s_ver \in {"status", "files"}
      /\ s_cli.then = "close"
      /\ ~HasTerminator(s_cli.bytes) )
    => \A i \in 1..Len(s_sent) : s_sent[i][1] # "HTTP/1.1 200 OK"

====
